---- MODULE Spec2Model ----
(***************************************************************************)
(* A model of stepfunc/bom-tools: build-log ingestion into a package      *)
(* ledger (src/src/log.rs, src/cargo-bom/src/log.rs) and the commands      *)
(* that reconcile a ledger with an allow-list Config and a dependency      *)
(* tree (license reports, gen-config, diff-tree), or that build a bill of  *)
(* materials from it (create_bom, gen_bom).                                *)
(* The parsers of the inputs (PackageInfo::from_str, and                   *)
(* Dependency::from_str and parse_tree of src/src/tree.rs) are run on      *)
(* their own under SpecParse.                                              *)
(*                                                                         *)
(* Input text (package descriptors) is a sequence of one-character         *)
(* strings, so that tokenising and parsing are computed as the code        *)
(* computes them; a Rust String produced by to_string() is a TLA+ string.  *)
(* A semver::Version is the triple <<major, minor, patch>>; the version    *)
(* tokens of the model carry no pre-release or build metadata.             *)
(***************************************************************************)
EXTENDS Naturals, Sequences, FiniteSets, TLC

VARIABLES
    entry,      \* the function entered: "read_log", "read_file", ... , or a command
    pc,         \* position inside it
    packages,   \* BuildLog.packages : BTreeMap<String, PackageUsage>
    result,     \* what the function returned (or "none" while it runs)
    log_files,  \* history: the messages yielded so far, one sequence per file opened
    in_log,     \* the ledger a command started from (before pruning)
    config,     \* the Config a command read
    tree,       \* the Vec<Dependency> a command parsed
    out,        \* lines written to the writer / stdout
    errout,     \* lines written to stderr
    input,      \* the text a parser is given: a line, or the lines of a reader
    local       \* the locals of the running parser (iterators, parsed fields)

vars ==
    <<entry, pc, packages, result, log_files, in_log, config, tree, out, errout, input,
      local>>

----------------------------------------------------------------------------
(* Bounds *)

\* messages read over one ingestion (all files together)
MaxEvents == 3
\* files a recursive directory scan finds
MaxFiles == 2
\* length of the parsed dependency tree
MaxTree == 2

\* the components of a Bom
MaxComponents == 2

\* the directories gen_licenses_in_dirs visits
MaxDirs == 2

----------------------------------------------------------------------------
(* Text *)

Digits == <<"0", "1", "2", "3", "4", "5", "6", "7", "8", "9">>

IsDigit(c) == \E i \in 1..10 : Digits[i] = c

DigitValue(c) == (CHOOSE i \in 1..10 : Digits[i] = c) - 1

\* u8::is_ascii_whitespace: space, tab, LF, FF, CR
IsAsciiWhitespace(c) == c \in {" ", "\t", "\n", "\f", "\r"}

\* String::from / to_string of a token
RECURSIVE to_string(_)
to_string(s) == IF s = <<>> THEN "" ELSE Head(s) \o to_string(Tail(s))

\* str::split_ascii_whitespace, collected: the non-empty maximal runs of
\* non-whitespace characters, in order
RECURSIVE SplitFrom(_, _, _)
SplitFrom(s, i, cur) ==
    IF i > Len(s)
    THEN IF cur = <<>> THEN <<>> ELSE <<cur>>
    ELSE IF IsAsciiWhitespace(s[i])
         THEN IF cur = <<>>
              THEN SplitFrom(s, i + 1, <<>>)
              ELSE <<cur>> \o SplitFrom(s, i + 1, <<>>)
         ELSE SplitFrom(s, i + 1, Append(cur, s[i]))

split_ascii_whitespace(s) == SplitFrom(s, 1, <<>>)

\* split on a separator character, empty pieces kept
RECURSIVE SplitOn(_, _, _, _)
SplitOn(s, sep, i, cur) ==
    IF i > Len(s)
    THEN <<cur>>
    ELSE IF s[i] = sep
         THEN <<cur>> \o SplitOn(s, sep, i + 1, <<>>)
         ELSE SplitOn(s, sep, i + 1, Append(cur, s[i]))

----------------------------------------------------------------------------
(* semver::Version *)

\* a numeric identifier: digits, no leading zero unless it is "0"
IsNumericIdent(t) ==
    /\ Len(t) > 0
    /\ \A i \in 1..Len(t) : IsDigit(t[i])
    /\ (Len(t) > 1 => t[1] # "0")

RECURSIVE NumValue(_, _)
NumValue(t, acc) ==
    IF t = <<>> THEN acc ELSE NumValue(Tail(t), 10 * acc + DigitValue(Head(t)))

\* semver::Version::parse on a token without pre-release / build metadata
VersionParse(t) ==
    LET parts == SplitOn(t, ".", 1, <<>>)
    IN  IF Len(parts) = 3 /\ \A i \in 1..3 : IsNumericIdent(parts[i])
        THEN [ok |-> TRUE,
              version |-> <<NumValue(parts[1], 0), NumValue(parts[2], 0),
                            NumValue(parts[3], 0)>>]
        ELSE [ok |-> FALSE, err |-> <<"semver parse error">>]

\* Ord for semver::Version: numeric comparison field by field
VersionLess(v, w) ==
    \/ v[1] < w[1]
    \/ v[1] = w[1] /\ v[2] < w[2]
    \/ v[1] = w[1] /\ v[2] = w[2] /\ v[3] < w[3]

\* Display for semver::Version
VersionToString(v) ==
    ToString(v[1]) \o "." \o ToString(v[2]) \o "." \o ToString(v[3])

\* BTreeSet<Version>::iter(): the elements in ascending order
RECURSIVE VersionsAscending(_)
VersionsAscending(vs) ==
    IF vs = {} THEN <<>>
    ELSE LET least == CHOOSE v \in vs : \A w \in vs : w = v \/ VersionLess(v, w)
         IN  <<least>> \o VersionsAscending(vs \ {least})

----------------------------------------------------------------------------
(* PackageInfo and the ledger *)

Ok(v) == [ok |-> TRUE, value |-> v]

Err(e) == [ok |-> FALSE, err |-> e]

\* a panic: the thread unwinds, the function returns nothing
Panic(msg) == [ok |-> FALSE, panic |-> msg]

IsErr(r) == ~r.ok /\ "err" \in DOMAIN r

IsPanic(r) == ~r.ok /\ "panic" \in DOMAIN r

Range(f) == {f[x] : x \in DOMAIN f}

\* a variant of PackageInfo_from_str in which a descriptor must have exactly
\* three tokens
PackageInfo_from_str_exact(s) ==
    LET split == split_ascii_whitespace(s)
    IN  IF Len(split) < 1 THEN Err(<<"missing id">>)
        ELSE IF Len(split) < 2 THEN Err(<<"missing version">>)
        ELSE IF Len(split) < 3 THEN Err(<<"missing source">>)
        ELSE IF Len(split) > 3 THEN Err(<<"unexpected token">>)
        ELSE LET v == VersionParse(split[2])
             IN  IF ~v.ok THEN Err(v.err)
                 ELSE Ok([id |-> to_string(split[1]),
                          version |-> v.version,
                          source |-> to_string(split[3])])

\* PackageInfo::from_str
PackageInfo_from_str(s) ==
    LET split == split_ascii_whitespace(s)
    IN  IF Len(split) < 1 THEN Err(<<"missing id">>)
        ELSE IF Len(split) < 2 THEN Err(<<"missing version">>)
        ELSE IF Len(split) < 3 THEN Err(<<"missing source">>)
        ELSE LET v == VersionParse(split[2])
             IN  IF ~v.ok THEN Err(v.err)
                 ELSE Ok([id |-> to_string(split[1]),
                          version |-> v.version,
                          source |-> to_string(split[3])])

\* a variant of PackageUsage_from in which the version set starts empty
PackageUsage_from_empty(info) == [versions |-> {}, source |-> info.source]

\* From<PackageInfo> for PackageUsage
PackageUsage_from(info) == [versions |-> {info.version}, source |-> info.source]

EmptyMap == [k \in {} |-> {}]

\* BTreeMap::insert
MapInsert(m, k, v) == [x \in DOMAIN m \cup {k} |-> IF x = k THEN v ELSE m[x]]

\* BTreeMap::retain on the keys
MapRetain(m, keep) == [x \in {k \in DOMAIN m : k \in keep} |-> m[x]]

\* format!("package {} has different sources, {} and {}", ..): formatted text
\* is the sequence of its literal pieces and arguments
ConflictError(info, existing) ==
    <<"package ", info.id, " has different sources, ", info.source, " and ",
      existing.source>>

\* a variant of read_log_item in which the source comparison is missing
read_log_item_unchecked(pkgs, item) ==
    IF item.kind = "Err" THEN Err(<<"io error">>)
    ELSE IF item.kind # "CompilerArtifact" THEN Ok(pkgs)
    ELSE LET info == PackageInfo_from_str(item.repr)
         IN  IF ~info.ok THEN info
             ELSE LET i == info.value
                  IN  IF i.id \notin DOMAIN pkgs
                      THEN Ok(MapInsert(pkgs, i.id, PackageUsage_from(i)))
                      ELSE Ok([pkgs EXCEPT ![i.id].versions = @ \cup {i.version}])

\* one iteration of the loop of read_log: the ledger after the item, or the
\* error the function returns
read_log_item(pkgs, item) ==
    IF item.kind = "Err" THEN Err(<<"io error">>)
    ELSE IF item.kind # "CompilerArtifact" THEN Ok(pkgs)
    ELSE LET info == PackageInfo_from_str(item.repr)
         IN  IF ~info.ok THEN info
             ELSE LET i == info.value
                  IN  IF i.id \notin DOMAIN pkgs
                      THEN Ok(MapInsert(pkgs, i.id, PackageUsage_from(i)))
                      ELSE IF pkgs[i.id].source # i.source
                           THEN Err(ConflictError(i, pkgs[i.id]))
                           ELSE Ok([pkgs EXCEPT ![i.id].versions = @ \cup {i.version}])

\* a variant of BuildLog_read_item in which an artifact whose descriptor does
\* not parse is passed over
BuildLog_read_item_skip_bad(pkgs, item) ==
    IF item.kind = "Err" THEN Err(<<"io error">>)
    ELSE IF item.kind # "CompilerArtifact" THEN Ok(pkgs)
    ELSE LET info == PackageInfo_from_str(item.repr)
         IN  IF ~info.ok THEN Ok(pkgs)
             ELSE LET i == info.value
                  IN  IF i.id \notin DOMAIN pkgs
                      THEN Ok(MapInsert(pkgs, i.id, PackageUsage_from(i)))
                      ELSE Ok([pkgs EXCEPT ![i.id].versions = @ \cup {i.version}])

\* one iteration of the loop of BuildLog::read
BuildLog_read_item(pkgs, item) ==
    IF item.kind = "Err" THEN Err(<<"io error">>)
    ELSE IF item.kind # "CompilerArtifact" THEN Ok(pkgs)
    ELSE LET info == PackageInfo_from_str(item.repr)
         IN  IF ~info.ok THEN info
             ELSE LET i == info.value
                  IN  IF i.id \notin DOMAIN pkgs
                      THEN Ok(MapInsert(pkgs, i.id, PackageUsage_from(i)))
                      ELSE Ok([pkgs EXCEPT ![i.id].versions = @ \cup {i.version}])

----------------------------------------------------------------------------
(* The messages of a build log *)

Sp == <<" ">>

IdTokens == {<<"a">>, <<"b">>}

VersionTokens == {<<"1", ".", "0", ".", "0">>, <<"1", ".", "1", "0", ".", "0">>}

SourceTokens == {<<"s">>, <<"t">>}

\* package_id.repr of an artifact: well-formed descriptors, one with no source
\* tag and one whose version does not parse
Reprs ==
    {i \o Sp \o v \o Sp \o s : i \in IdTokens, v \in VersionTokens, s \in SourceTokens}
        \cup {<<"a">> \o Sp \o <<"1", ".", "0", ".", "0">>,
              <<"a">> \o Sp \o <<"1", ".", "x">> \o Sp \o <<"t">>}

\* cargo_metadata::Message as parse_stream yields it: an artifact, any other
\* message, or an I/O error
Messages ==
    {[kind |-> "CompilerArtifact", repr |-> r] : r \in Reprs}
        \cup {[kind |-> "BuildFinished", repr |-> <<>>], [kind |-> "Err", repr |-> <<>>]}

LogEntries == {"read_log", "read_file", "read_files_recursively"}

RECURSIVE Flatten(_)
Flatten(ss) == IF ss = <<>> THEN <<>> ELSE Head(ss) \o Flatten(Tail(ss))

\* every message yielded so far, in the order read
History == Flatten(log_files)

item_of(e, pkgs, item) ==
    IF e = "read_log" THEN read_log_item(pkgs, item) ELSE BuildLog_read_item(pkgs, item)

----------------------------------------------------------------------------
(* Ingestion: read_log, BuildLog::read_file, BuildLog::read_files_recursively *)

NoConfig ==
    [targets |-> EmptyMap, build_only |-> {}, vendor |-> EmptyMap, third_party |-> EmptyMap]

InitLog ==
    /\ entry \in LogEntries
    /\ pc = IF entry = "read_files_recursively" THEN "dir" ELSE "open"
    /\ packages = EmptyMap
    /\ result = "none"
    /\ log_files = <<>>
    /\ in_log = EmptyMap
    /\ config = NoConfig
    /\ tree = <<>>
    /\ out = <<>>
    /\ errout = <<>>
    /\ input = <<>>
    /\ local = <<>>

CmdUnchanged == UNCHANGED <<in_log, config, tree, out, errout, input, local>>

\* read_files_rec: read_dir yields, in whatever order the file system gives,
\* the next file named file_name
DirNextFile ==
    /\ pc = "dir"
    /\ Len(log_files) < MaxFiles
    /\ pc' = "open"
    /\ UNCHANGED <<entry, packages, result, log_files>>
    /\ CmdUnchanged

\* read_files_rec: the entries are exhausted; read_files_recursively returns
\* the merged log
DirDone ==
    /\ pc = "dir"
    /\ pc' = "done"
    /\ result' = Ok(packages)
    /\ UNCHANGED <<entry, packages, log_files>>
    /\ CmdUnchanged

\* read_dir, an entry or its file_type fails
DirError ==
    /\ pc = "dir"
    /\ pc' = "done"
    /\ result' = Err(<<"io error">>)
    /\ UNCHANGED <<entry, packages, log_files>>
    /\ CmdUnchanged

\* std::fs::File::open(path)?
OpenFile ==
    /\ pc = "open"
    /\ pc' = "file"
    /\ log_files' = Append(log_files, <<>>)
    /\ UNCHANGED <<entry, packages, result>>
    /\ CmdUnchanged

OpenFileError ==
    /\ pc = "open"
    /\ pc' = "done"
    /\ result' = Err(<<"io error">>)
    /\ UNCHANGED <<entry, packages, log_files>>
    /\ CmdUnchanged

\* one iteration of `for item in Message::parse_stream(reader)`
ReadMessage ==
    /\ pc = "file"
    /\ Len(History) < MaxEvents
    /\ \E item \in Messages :
        LET r == item_of(entry, packages, item)
        IN  /\ log_files' = [log_files EXCEPT ![Len(log_files)] = Append(@, item)]
            /\ IF r.ok
               THEN /\ packages' = r.value
                    /\ UNCHANGED <<pc, result>>
               ELSE /\ pc' = "done"
                    /\ result' = r
                    /\ UNCHANGED packages
    /\ UNCHANGED entry
    /\ CmdUnchanged

\* the stream ends: read_log and read_file return the ledger, read_files_rec
\* goes on with the next directory entry
EndOfFile ==
    /\ pc = "file"
    /\ IF entry = "read_files_recursively"
       THEN /\ pc' = "dir"
            /\ UNCHANGED result
       ELSE /\ pc' = "done"
            /\ result' = Ok(packages)
    /\ UNCHANGED <<entry, packages, log_files>>
    /\ CmdUnchanged

NextLog ==
    \/ DirNextFile
    \/ DirDone
    \/ DirError
    \/ OpenFile
    \/ OpenFileError
    \/ ReadMessage
    \/ EndOfFile

SpecLog == InitLog /\ [][NextLog]_vars

----------------------------------------------------------------------------
(* Ingestion as a function of the whole message sequence *)

\* the loop of read_log (e = "read_log") or of BuildLog::read over msgs,
\* starting from the ledger pkgs
RECURSIVE IngestFrom(_, _, _)
IngestFrom(e, pkgs, msgs) ==
    IF msgs = <<>> THEN Ok(pkgs)
    ELSE LET r == item_of(e, pkgs, Head(msgs))
         IN  IF r.ok THEN IngestFrom(e, r.value, Tail(msgs)) ELSE r

Reorderings(h) ==
    {[i \in 1..Len(h) |-> h[p[i]]] : p \in Permutations(1..Len(h))}

IsArtifact(item) == item.kind = "CompilerArtifact"

\* PackageInfo::from_str of every descriptor of the messages
ParsedReprs == [r \in Reprs |-> PackageInfo_from_str(r)]

Decodes(item) == IsArtifact(item) /\ ParsedReprs[item.repr].ok

Decoded(item) == ParsedReprs[item.repr].value

\* the decoded (identity, version, source) triples of the artifact events of h
Triples(h) == {Decoded(h[i]) : i \in {j \in 1..Len(h) : Decodes(h[j])}}

\* events i < j of h name one identity with two different source tags
Conflicting(h, i, j) ==
    /\ i < j
    /\ Decodes(h[i])
    /\ Decodes(h[j])
    /\ Decoded(h[i]).id = Decoded(h[j]).id
    /\ Decoded(h[i]).source # Decoded(h[j]).source

Returned == pc = "done" /\ result.ok

----------------------------------------------------------------------------
(* Claims about ingestion *)

\* C1: for every event sequence that ingests successfully (read_log or
\* BuildLog::read), the ledger holds exactly the identities of the events, the
\* version set of each identity is exactly the set of versions its events
\* carry, and every permutation of the events gives the same ledger.
C1_UnionAnyOrder ==
    (entry \in LogEntries /\ Returned) =>
        /\ DOMAIN packages = {t.id : t \in Triples(History)}
        /\ \A id \in DOMAIN packages :
            packages[id].versions
                = {t.version : t \in {u \in Triples(History) : u.id = id}}
        /\ \A q \in Reorderings(History) : IngestFrom(entry, EmptyMap, q) = Ok(packages)

\* C2: in read_log, as soon as an artifact event names an identity already in
\* the ledger with a source tag different from the stored one, read_log has
\* returned an error naming the identity, the new tag and the stored tag, and
\* no ledger; the event read last is the conflicting one.
C2_ConflictFails ==
    entry = "read_log" =>
        \A j \in 1..Len(History) : \A i \in 1..Len(History) :
            Conflicting(History, i, j) =>
                /\ j = Len(History)
                /\ pc = "done"
                /\ ~result.ok
                /\ DOMAIN result = {"ok", "err"}
                /\ result.err = <<"package ", Decoded(History[j]).id,
                                  " has different sources, ", Decoded(History[j]).source,
                                  " and ", Decoded(History[i]).source>>

\* C2 witness: the two events are the first and the third of the stream, with
\* an event for another identity between them, and read_log failed
C2_Witness ==
    /\ entry = "read_log"
    /\ Len(History) = 3
    /\ Conflicting(History, 1, 3)
    /\ Decodes(History[2])
    /\ Decoded(History[2]).id # Decoded(History[1]).id
    /\ pc = "done"
    /\ ~result.ok

\* C3: multi-file ingestion applies the merge rule of read_log: two artifact
\* events for one identity with different source tags, in one file or in two
\* files, make BuildLog ingestion fail instead of returning a ledger.
C3_MultiFileConflictFails ==
    entry \in {"read_file", "read_files_recursively"} =>
        \A j \in 1..Len(History) : \A i \in 1..Len(History) :
            Conflicting(History, i, j) => (pc = "done" /\ ~result.ok)

\* an artifact event whose package descriptor does not parse
Malformed(item) == IsArtifact(item) /\ ~ParsedReprs[item.repr].ok

\* C11: if the package descriptor of an artifact event fails to parse, the
\* ingestion (read_log, read_file, read_files_recursively) has returned that
\* parse error and no ledger, whatever valid events came before; the failing
\* event is the last one read, and whatever event follows it in the stream the
\* ingestion returns the same error.
C11_BadDescriptorFails ==
    entry \in LogEntries =>
        \A i \in 1..Len(History) :
            Malformed(History[i]) =>
                /\ i = Len(History)
                /\ pc = "done"
                /\ IsErr(result)
                /\ result = PackageInfo_from_str(History[i].repr)
                /\ \A m \in Messages :
                    IngestFrom(entry, EmptyMap, Append(History, m)) = result

\* C11 witness: a recursive scan merged a valid event of a first file, then an
\* artifact of the second file failed to parse and the scan returned an error
C11_Witness ==
    /\ entry = "read_files_recursively"
    /\ Len(log_files) = 2
    /\ Len(log_files[1]) >= 1
    /\ Decodes(log_files[1][1])
    /\ Len(log_files[2]) >= 1
    /\ Malformed(History[Len(History)])
    /\ DOMAIN packages # {}
    /\ pc = "done"
    /\ IsErr(result)

----------------------------------------------------------------------------
(* Config: licenses, packages *)

\* Ord for str on the strings the commands sort: SPDX identifiers and crate names
StringsInOrder ==
    <<"BSD-3-Clause", "BSL-1.0", "ISC", "MIT", "MPL-2.0", "OpenSSL", "Unicode-DFS-2016",
      "a", "b", "c">>

StrRank(x) == CHOOSE i \in 1..Len(StringsInOrder) : StringsInOrder[i] = x

\* BTreeMap / BTreeSet iteration over string keys: ascending
RECURSIVE StringsAscending(_)
StringsAscending(S) ==
    IF S = {} THEN <<>>
    ELSE LET least == CHOOSE x \in S : \A y \in S : StrRank(x) <= StrRank(y)
         IN  <<least>> \o StringsAscending(S \ {least})

\* [String]::join
RECURSIVE Join(_, _)
Join(strs, sep) ==
    IF strs = <<>> THEN ""
    ELSE IF Len(strs) = 1 THEN strs[1]
    ELSE strs[1] \o sep \o Join(Tail(strs), sep)

NotPresent == [kind |-> "NotPresent"]

Lines(ls) == [kind |-> "Lines", lines |-> ls]

\* a variant of Copyright_lines in which NotPresent has no lines
Copyright_lines_none(c) ==
    IF c.kind = "Lines" THEN c.lines ELSE <<>>

\* Copyright::lines
Copyright_lines(c) ==
    IF c.kind = "Lines" THEN c.lines
    ELSE <<"No copyright statement was provided by the author even though they license may refer to it">>

WithCopyright == {"ISC", "MIT", "BSD3"}

\* License::spdx_short
spdx_short(lic) ==
    IF lic.tag = "Unknown" THEN Panic("You must define unknown licenses")
    ELSE Ok(CASE lic.tag = "ISC" -> "ISC"
              [] lic.tag = "MIT" -> "MIT"
              [] lic.tag = "OpenSSL" -> "OpenSSL"
              [] lic.tag = "BSLv1" -> "BSL-1.0"
              [] lic.tag = "MPLv2" -> "MPL-2.0"
              [] lic.tag = "BSD3" -> "BSD-3-Clause"
              [] lic.tag = "UnicodeDFS2016" -> "Unicode-DFS-2016")

\* License::url
License_url(lic) ==
    IF lic.tag = "Unknown" THEN Panic("You must define unknown licenses")
    ELSE Ok("https://spdx.org/licenses/" \o spdx_short(lic).value \o ".html")

\* a variant of License_text in which Unknown has a text
License_text_total(lic) ==
    Ok(CASE lic.tag = "ISC" -> "licenses/isc.txt"
         [] lic.tag = "MIT" -> "licenses/mit.txt"
         [] lic.tag = "OpenSSL" -> "licenses/openssl.txt"
         [] lic.tag = "BSLv1" -> "licenses/bsl.txt"
         [] lic.tag = "MPLv2" -> "licenses/mpl2.txt"
         [] lic.tag = "BSD3" -> "licenses/bsd3.txt"
         [] lic.tag = "UnicodeDFS2016" -> "licenses/unicode_dfs_2016.txt"
         [] OTHER -> "licenses/unknown.txt")

\* License::text: the embedded file, named here by its path
License_text(lic) ==
    IF lic.tag = "Unknown" THEN Panic("You must define unknown licenses")
    ELSE Ok(CASE lic.tag = "ISC" -> "licenses/isc.txt"
              [] lic.tag = "MIT" -> "licenses/mit.txt"
              [] lic.tag = "OpenSSL" -> "licenses/openssl.txt"
              [] lic.tag = "BSLv1" -> "licenses/bsl.txt"
              [] lic.tag = "MPLv2" -> "licenses/mpl2.txt"
              [] lic.tag = "BSD3" -> "licenses/bsd3.txt"
              [] lic.tag = "UnicodeDFS2016" -> "licenses/unicode_dfs_2016.txt")

\* License::info
License_info(lic) ==
    IF ~License_url(lic).ok THEN License_url(lic)
    ELSE IF ~License_text(lic).ok THEN License_text(lic)
    ELSE Ok([url |-> License_url(lic).value, text |-> License_text(lic).value])

\* License::copyright: None is <<>>, Some(lines) is <<lines>>
License_copyright(lic) ==
    IF lic.tag \in WithCopyright THEN <<Copyright_lines(lic.copyright)>> ELSE <<>>

\* Package::url
Package_url(pkg) == "https://crates.io/crates/" \o pkg.id

----------------------------------------------------------------------------
(* The inputs of the commands *)

\* the crate names of a build log
CrateNames == {"a", "b"}

\* the component names of a CycloneDX bom
ComponentNames == {"a", "b", "c"}

Versions == {<<1, 0, 0>>, <<1, 10, 0>>}

NonEmptySubsets(S) == SUBSET S \ {{}}

Maps(K, V) == UNION {[D -> V] : D \in SUBSET K}

\* the ledgers read_file returns: every entry has observed a version
Ledgers == Maps(CrateNames, [versions : NonEmptySubsets(Versions), source : {"s"}])

\* the components extract_deps returns
ComponentMaps == Maps(ComponentNames, NonEmptySubsets(Versions))

LicenseLists ==
    {<<>>,
     <<[tag |-> "Unknown"]>>,
     <<[tag |-> "MIT", copyright |-> NotPresent]>>,
     <<[tag |-> "MPLv2"]>>,
     <<[tag |-> "MIT", copyright |-> Lines(<<"Copyright (c) X">>)],
       [tag |-> "ISC", copyright |-> NotPresent]>>}

PackagesFor(id) == [id : {id}, source : {"crates.io"}, licenses : LicenseLists]

ThirdPartyMaps(names) ==
    {m \in Maps(names, UNION {PackagesFor(id) : id \in names}) :
        \A id \in DOMAIN m : m[id].id = id}

VendorMaps == {[id \in D |-> [url |-> "https://vendor/" \o id]] : D \in SUBSET CrateNames}

\* the Configs serde_json::from_reader returns
Configs ==
    [targets : {EmptyMap}, build_only : SUBSET CrateNames, vendor : VendorMaps,
     third_party : ThirdPartyMaps(CrateNames)]

\* the configs gen_licenses_for is run with: it reads third_party only
AllowLists ==
    [targets : {EmptyMap}, build_only : {{}}, vendor : {EmptyMap},
     third_party : ThirdPartyMaps(ComponentNames)]

Dependencies == [id : CrateNames, version : Versions]

\* the dependency lists parse_tree returns
Trees == UNION {[1..n -> Dependencies] : n \in 0..MaxTree}

\* the crate names of the ledgers create_bom and gen_bom are given
BomNames == {"a", "b", "c"}

BomLedgers == Maps(BomNames, [versions : NonEmptySubsets(Versions), source : {"s"}])

\* the subject_name argument of create_bom
BomSubjects == {"a", "c"}

BomVendorMaps == {[id \in D |-> [url |-> "https://vendor/" \o id]] : D \in {{}, {"a"}, {"a", "c"}}}

MitNotPresent == <<[tag |-> "MIT", copyright |-> NotPresent]>>

MitAndIsc ==
    <<[tag |-> "MIT", copyright |-> Lines(<<"Copyright (c) X">>)],
      [tag |-> "ISC", copyright |-> NotPresent]>>

ThirdParty(id, licenses) == [id |-> id, source |-> "crates.io", licenses |-> licenses]

BomThirdPartyMaps ==
    {EmptyMap,
     [id \in {"b", "c"} |-> ThirdParty(id, IF id = "b" THEN MitNotPresent ELSE MitAndIsc)],
     [id \in {"b", "c"} |->
        ThirdParty(id, IF id = "b" THEN <<[tag |-> "MPLv2"]>> ELSE <<[tag |-> "Unknown"]>>)],
     [id \in {"a", "b"} |-> ThirdParty(id, IF id = "a" THEN MitNotPresent ELSE <<>>)]}

\* the Configs create_bom is given
BomConfigs ==
    [targets : {EmptyMap}, build_only : {{}, {"a"}, {"b"}}, vendor : BomVendorMaps,
     third_party : BomThirdPartyMaps]

\* Config.targets of the Configs gen_bom reads: no target, or the target "lib"
\* with a license URL that is a URI or is not
BomTargets ==
    {EmptyMap}
        \cup {[t \in {"lib"} |-> [name |-> "a", version |-> "1.0.0", license_url |-> u]] :
                u \in {"https://stepfunc.io/license", ""}}

GenBomConfigs ==
    [targets : BomTargets, build_only : {{}, {"a"}, {"b"}}, vendor : BomVendorMaps,
     third_party : BomThirdPartyMaps]

\* component.version of a CycloneDX component: None is <<>>, Some(s) is <<s>>
ComponentVersions ==
    {<<>>, <<<<"1", ".", "x">>>>} \cup {<<v>> : v \in VersionTokens}

BomComponents == [name : ComponentNames, version : ComponentVersions]

\* the Boms parse_from_json_v1_4 returns: components is None or a list
Boms ==
    {[components |-> <<>>]}
        \cup {[components |-> <<cs>>] : cs \in UNION {[1..n -> BomComponents] : n \in 0..MaxComponents}}

\* the Configs gen_licenses and gen_licenses_in_dirs of allow-list read
ScanConfigs ==
    [targets : {EmptyMap}, build_only : {{}, {"b"}},
     vendor : {EmptyMap, [id \in {"c"} |-> [url |-> "https://vendor/c"]]},
     third_party : {[id \in D |-> ThirdParty(id, MitNotPresent)] : D \in {{"a"}, ComponentNames}}]

Component(name, version) == [name |-> name, version |-> <<version>>]

\* the Boms of the directories gen_licenses_in_dirs visits
DirBoms ==
    {[components |-> <<>>],
     [components |-> <<<<>>>>],
     [components |-> <<<<Component("a", <<"1", ".", "0", ".", "0">>)>>>>],
     [components |-> <<<<Component("a", <<"1", ".", "1", "0", ".", "0">>),
                         Component("b", <<"1", ".", "0", ".", "0">>)>>>>],
     [components |-> <<<<Component("c", <<"1", ".", "0", ".", "0">>)>>>>],
     [components |-> <<<<Component("b", <<"1", ".", "x">>)>>>>]}

----------------------------------------------------------------------------
(* License reports *)

\* `for license in &pkg.licenses { licenses.insert(spdx_short, info) }`:
\* the summary map after the package, or the panic of spdx_short / info
RECURSIVE InsertLicenses(_, _)
InsertLicenses(lics, acc) ==
    IF lics = <<>> THEN Ok(acc)
    ELSE LET lic == Head(lics)
         IN  IF ~spdx_short(lic).ok THEN spdx_short(lic)
             ELSE IF ~License_info(lic).ok THEN License_info(lic)
             ELSE InsertLicenses(Tail(lics),
                                 MapInsert(acc, spdx_short(lic).value, License_info(lic).value))

\* the summary lines: two per license, ascending by SPDX identifier
RECURSIVE SummaryLines(_, _)
SummaryLines(keys, licenses) ==
    IF keys = <<>> THEN <<>>
    ELSE <<<<"  * ", Head(keys)>>, <<"      - ", licenses[Head(keys)].url>>>>
            \o SummaryLines(Tail(keys), licenses)

\* a variant of TextLines in which the texts are written from the last key
\* to the first
RECURSIVE TextLines_reversed(_, _)
TextLines_reversed(keys, licenses) ==
    IF keys = <<>> THEN <<>>
    ELSE TextLines_reversed(Tail(keys), licenses) \o <<<<licenses[Head(keys)].text>>, <<>>>>

\* the license texts at the end: text and an empty line per license
RECURSIVE TextLines(_, _)
TextLines(keys, licenses) ==
    IF keys = <<>> THEN <<>>
    ELSE <<<<licenses[Head(keys)].text>>, <<>>>> \o TextLines(Tail(keys), licenses)

CopiesLine ==
    <<"Copies of these licenses are provided at the end of this document. They may also be obtained from the URLs above.">>

RECURSIVE SpdxShorts(_)
SpdxShorts(lics) ==
    IF lics = <<>> THEN <<>> ELSE <<spdx_short(Head(lics)).value>> \o SpdxShorts(Tail(lics))

RECURSIVE VersionStrings(_)
VersionStrings(vs) ==
    IF vs = <<>> THEN <<>> ELSE <<VersionToString(Head(vs))>> \o VersionStrings(Tail(vs))

\* `for lic in &pkg.licenses { if let Some(lines) = lic.copyright() { writeln each } }`
RECURSIVE CopyrightLines(_)
CopyrightLines(lics) ==
    IF lics = <<>> THEN <<>>
    ELSE LET c == License_copyright(Head(lics))
         IN  (IF c = <<>> THEN <<>> ELSE [i \in 1..Len(c[1]) |-> <<c[1][i]>>])
                \o CopyrightLines(Tail(lics))

HasUnknown(lics) == \E i \in 1..Len(lics) : lics[i].tag = "Unknown"

\* Debug of a BTreeSet<String>: {"a", "b"}
RECURSIVE DebugItems(_)
DebugItems(names) ==
    IF names = <<>> THEN <<>>
    ELSE <<"\"" \o Head(names) \o "\"">>
            \o (IF Len(names) > 1 THEN <<", ">> ELSE <<>>) \o DebugItems(Tail(names))

DebugSet(S) == <<"{">> \o DebugItems(StringsAscending(S)) \o <<"}">>

(* allow-list: gen_licenses_for *)

\* a variant of gen_licenses_for_scan in which the scan stops at the first name that
\* is not in third_party
RECURSIVE gen_licenses_for_scan_first(_, _, _, _)
gen_licenses_for_scan_first(names, cfg, licenses, disallowed) ==
    IF names = <<>> \/ disallowed # {}
    THEN Ok([licenses |-> licenses, disallowed |-> disallowed])
    ELSE LET name == Head(names)
         IN  IF name \in DOMAIN cfg.third_party
             THEN LET r == InsertLicenses(cfg.third_party[name].licenses, licenses)
                  IN  IF ~r.ok THEN r
                      ELSE gen_licenses_for_scan_first(Tail(names), cfg, r.value, disallowed)
             ELSE gen_licenses_for_scan_first(Tail(names), cfg, licenses,
                                              disallowed \cup {name})

\* the first loop of gen_licenses_for: the license summary and the disallowed
\* names, or the panic of an Unknown license
RECURSIVE gen_licenses_for_scan(_, _, _, _)
gen_licenses_for_scan(names, cfg, licenses, disallowed) ==
    IF names = <<>>
    THEN Ok([licenses |-> licenses, disallowed |-> disallowed])
    ELSE LET name == Head(names)
         IN  IF name \in DOMAIN cfg.third_party
             THEN LET r == InsertLicenses(cfg.third_party[name].licenses, licenses)
                  IN  IF ~r.ok THEN r
                      ELSE gen_licenses_for_scan(Tail(names), cfg, r.value, disallowed)
             ELSE gen_licenses_for_scan(Tail(names), cfg, licenses, disallowed \cup {name})

\* the loop over the components of gen_licenses_for: the result and the writer
RECURSIVE gen_licenses_for_packages(_, _, _, _)
gen_licenses_for_packages(names, components, cfg, w) ==
    IF names = <<>> THEN [res |-> Ok("unit"), w |-> w]
    ELSE LET name == Head(names)
         IN  IF name \notin DOMAIN cfg.third_party
             THEN [res |-> Err(<<"3rd party package ", name, " not in the allow list">>),
                   w |-> w]
             ELSE LET pkg == cfg.third_party[name]
                      versions == VersionStrings(VersionsAscending(components[name]))
                      w1 == w \o <<<<"crate: ", pkg.id>>,
                                   <<"version(s): ", Join(versions, ", ")>>,
                                   <<"url: ", Package_url(pkg)>>>>
                  IN  IF pkg.licenses = <<>>
                      THEN [res |-> Err(<<"No license specified for ", name>>), w |-> w1]
                      ELSE IF HasUnknown(pkg.licenses)
                      THEN [res |-> Panic("You must define unknown licenses"), w |-> w1]
                      ELSE gen_licenses_for_packages(
                               Tail(names), components, cfg,
                               w1 \o <<<<"license(s): ",
                                        Join(SpdxShorts(pkg.licenses), " AND ")>>>>
                                  \o CopyrightLines(pkg.licenses) \o <<<<>>>>)

\* gen_licenses_for(components, config, w): the result and what w received
gen_licenses_for(components, cfg) ==
    LET scan == gen_licenses_for_scan(StringsAscending(DOMAIN components), cfg,
                                      EmptyMap, {})
    IN  IF ~scan.ok THEN [res |-> scan, w |-> <<>>]
        ELSE IF scan.value.disallowed # {}
        THEN [res |-> Err(<<"These 3rd party packages are not in the allow list: ">>
                            \o DebugSet(scan.value.disallowed)),
              w |-> <<>>]
        ELSE LET licenses == scan.value.licenses
                 keys == StringsAscending(DOMAIN licenses)
                 head == <<<<"This distribution contains open source dependencies under the following licenses:">>,
                           <<>>>>
                            \o SummaryLines(keys, licenses) \o <<<<>>, CopiesLine, <<>>>>
                 body == gen_licenses_for_packages(StringsAscending(DOMAIN components),
                                                   components, cfg, head)
             IN  IF ~body.res.ok THEN body
                 ELSE [res |-> Ok("unit"), w |-> body.w \o TextLines(keys, licenses)]

(* cargo-bom: gen_licenses; src/src/main.rs: gen_licenses *)

\* a variant of remove_build_deps in which a build-only entry stays in the
\* ledger with its source tag cleared
remove_build_deps_untagged(pkgs, cfg) ==
    [id \in DOMAIN pkgs |->
        IF id \in cfg.build_only THEN [pkgs[id] EXCEPT !.source = ""] ELSE pkgs[id]]

\* BuildLog::remove_build_deps
remove_build_deps(pkgs, cfg) == MapRetain(pkgs, DOMAIN pkgs \ cfg.build_only)

\* a variant of remove_vendor_deps in which the vendor entries are the ones
\* retained
remove_vendor_deps_inverted(pkgs, cfg) == MapRetain(pkgs, DOMAIN cfg.vendor)

\* BuildLog::remove_vendor_deps
remove_vendor_deps(pkgs, cfg) == MapRetain(pkgs, DOMAIN pkgs \ DOMAIN cfg.vendor)

NotInAllowList(id) == <<"3rd party package ", id, " not in the allow list">>

\* the first loop of gen_licenses (cargo-bom and src/src/main.rs alike): the
\* license summary, the error of the first identity that is not in
\* third_party, or the panic of an Unknown license
RECURSIVE gen_licenses_scan(_, _, _)
gen_licenses_scan(ids, cfg, licenses) ==
    IF ids = <<>> THEN Ok(licenses)
    ELSE LET id == Head(ids)
         IN  IF id \notin DOMAIN cfg.third_party THEN Err(NotInAllowList(id))
             ELSE LET r == InsertLicenses(cfg.third_party[id].licenses, licenses)
                  IN  IF ~r.ok THEN r ELSE gen_licenses_scan(Tail(ids), cfg, r.value)

\* cargo-bom gen_licenses, after read_log and the Config are read: the pruned
\* log, the result and what w received
cargo_bom_gen_licenses(log, cfg) ==
    LET pruned == remove_vendor_deps(remove_build_deps(log, cfg), cfg)
        ids == StringsAscending(DOMAIN pruned)
        scan == gen_licenses_scan(ids, cfg, EmptyMap)
    IN  IF ~scan.ok THEN [log |-> pruned, res |-> scan, w |-> <<>>]
        ELSE LET licenses == scan.value
                 keys == StringsAscending(DOMAIN licenses)
                 head == <<<<"This binary contains open source dependencies under the following licenses:">>,
                           <<>>>>
                            \o SummaryLines(keys, licenses) \o <<<<>>, CopiesLine, <<>>>>
                 \* the loop over log.packages has the body of gen_licenses_for's
                 body == gen_licenses_for_packages(
                             ids, [id \in DOMAIN pruned |-> pruned[id].versions], cfg, head)
             IN  IF ~body.res.ok THEN [log |-> pruned, res |-> body.res, w |-> body.w]
                 ELSE [log |-> pruned, res |-> Ok("unit"),
                       w |-> body.w \o TextLines(keys, licenses)]

\* the loop over log.keys() of gen_licenses in src/src/main.rs
RECURSIVE main_gen_licenses_packages(_, _, _)
main_gen_licenses_packages(ids, cfg, w) ==
    IF ids = <<>> THEN [res |-> Ok("unit"), w |-> w]
    ELSE LET id == Head(ids)
         IN  IF id \notin DOMAIN cfg.third_party
             THEN [res |-> Err(NotInAllowList(id)), w |-> w]
             ELSE LET pkg == cfg.third_party[id]
                      w1 == w \o <<<<"crate: ", pkg.id>>, <<"url: ", Package_url(pkg)>>>>
                  IN  IF pkg.licenses = <<>>
                      THEN [res |-> Err(<<"No license specified for ", id>>), w |-> w1]
                      ELSE IF HasUnknown(pkg.licenses)
                      THEN [res |-> Panic("You must define unknown licenses"), w |-> w1]
                      ELSE main_gen_licenses_packages(
                               Tail(ids), cfg,
                               w1 \o <<<<"licenses: ", Join(SpdxShorts(pkg.licenses), " AND ")>>>>
                                  \o CopyrightLines(pkg.licenses) \o <<<<>>>>)

\* gen_licenses of src/src/main.rs, after the log and the Config are read; it
\* prints to stdout
main_gen_licenses(log, cfg) ==
    LET pruned == MapRetain(log, {id \in DOMAIN log :
                                    ~(id \in cfg.build_only \/ id \in DOMAIN cfg.vendor)})
        ids == StringsAscending(DOMAIN pruned)
        scan == gen_licenses_scan(ids, cfg, EmptyMap)
    IN  IF ~scan.ok THEN [log |-> pruned, res |-> scan, w |-> <<>>]
        ELSE LET licenses == scan.value
                 keys == StringsAscending(DOMAIN licenses)
                 head == <<<<"This binary contains open source dependencies under the following licenses:">>,
                           <<>>>>
                            \o SummaryLines(keys, licenses) \o <<<<>>, CopiesLine, <<>>>>
                 body == main_gen_licenses_packages(ids, cfg, head)
             IN  IF ~body.res.ok THEN [log |-> pruned, res |-> body.res, w |-> body.w]
                 ELSE [log |-> pruned, res |-> Ok("unit"),
                       w |-> body.w \o TextLines(keys, licenses)]

----------------------------------------------------------------------------
(* gen-config and diff-tree *)

\* tree.iter().any(|dep| &dep.id == id && &dep.version == version)
InTree(t, id, version) ==
    \E k \in 1..Len(t) : t[k].id = id /\ t[k].version = version

\* the (id, version) pairs of a log in iteration order: identities ascending,
\* the versions of each ascending
RECURSIVE LogPairs(_, _)
LogPairs(ids, log) ==
    IF ids = <<>> THEN <<>>
    ELSE LET vs == VersionsAscending(log[Head(ids)].versions)
         IN  [k \in 1..Len(vs) |-> [id |-> Head(ids), version |-> vs[k]]]
                \o LogPairs(Tail(ids), log)

\* a variant of generate_config_loop in which the tree is searched for the identity
\* alone
RECURSIVE generate_config_loop_by_id(_, _, _)
generate_config_loop_by_id(pairs, t, cfg) ==
    IF pairs = <<>> THEN cfg
    ELSE LET id == Head(pairs).id
         IN  IF \E k \in 1..Len(t) : t[k].id = id
             THEN generate_config_loop_by_id(
                      Tail(pairs), t,
                      [cfg EXCEPT !.third_party =
                          MapInsert(@, id, [id |-> id, source |-> "crates.io",
                                            licenses |-> <<>>])])
             ELSE generate_config_loop_by_id(
                      Tail(pairs), t, [cfg EXCEPT !.build_only = @ \cup {id}])

\* the nested loop of generate_config over the (id, version) pairs of the log
RECURSIVE generate_config_loop(_, _, _)
generate_config_loop(pairs, t, cfg) ==
    IF pairs = <<>> THEN cfg
    ELSE LET id == Head(pairs).id
         IN  IF InTree(t, id, Head(pairs).version)
             THEN generate_config_loop(
                      Tail(pairs), t,
                      [cfg EXCEPT !.third_party =
                          MapInsert(@, id, [id |-> id, source |-> "crates.io",
                                            licenses |-> <<>>])])
             ELSE generate_config_loop(
                      Tail(pairs), t, [cfg EXCEPT !.build_only = @ \cup {id}])

\* generate_config, after the log and the tree are read: the Config it writes
generate_config(log, t) ==
    generate_config_loop(LogPairs(StringsAscending(DOMAIN log), log), t, NoConfig)

\* a variant of diff_tree_first in which a dependency whose identity is in the log
\* is not looked up by version
RECURSIVE diff_tree_first_id_only(_, _)
diff_tree_first_id_only(t, log) ==
    IF t = <<>> THEN <<>>
    ELSE LET dep == Head(t)
         IN  (IF dep.id \notin DOMAIN log
              THEN <<<<"Tree contains dependency ", dep.id, " not found in build log!">>>>
              ELSE <<>>)
                \o diff_tree_first_id_only(Tail(t), log)

\* the first loop of diff_tree: the eprintln! lines for the tree's dependencies
RECURSIVE diff_tree_first(_, _)
diff_tree_first(t, log) ==
    IF t = <<>> THEN <<>>
    ELSE LET dep == Head(t)
         IN  (IF dep.id \notin DOMAIN log
              THEN <<<<"Tree contains dependency ", dep.id, " not found in build log!">>>>
              ELSE IF dep.version \notin log[dep.id].versions
              THEN <<<<"Tree contains dependency ", dep.id, " version ",
                       VersionToString(dep.version), " not found in build log!">>>>
              ELSE <<>>)
                \o diff_tree_first(Tail(t), log)

\* the second loop of diff_tree: the eprintln! lines for the log's pairs
RECURSIVE diff_tree_second(_, _)
diff_tree_second(pairs, t) ==
    IF pairs = <<>> THEN <<>>
    ELSE (IF ~InTree(t, Head(pairs).id, Head(pairs).version)
          THEN <<<<"Log contains dependency ", Head(pairs).id, " version ",
                   VersionToString(Head(pairs).version), " not found in the tree">>>>
          ELSE <<>>)
            \o diff_tree_second(Tail(pairs), t)

\* a variant of diff_tree in which the second loop runs only if the first one
\* reported nothing
diff_tree_stop_after_first(log, t) ==
    LET first == diff_tree_first(t, log)
    IN  [res |-> Ok("unit"),
         err |-> IF first # <<>> THEN first
                 ELSE diff_tree_second(LogPairs(StringsAscending(DOMAIN log), log), t)]

\* diff_tree, after the log and the tree are read: the result and stderr
diff_tree(log, t) ==
    [res |-> Ok("unit"),
     err |-> diff_tree_first(t, log)
                \o diff_tree_second(LogPairs(StringsAscending(DOMAIN log), log), t)]

----------------------------------------------------------------------------
(* Bills of materials: create_bom (cargo-bom), gen_bom (bom-tools) and      *)
(* extract_deps, gen_licenses, gen_licenses_in_dirs (allow-list)            *)

\* BTreeMap::remove: the map without the key
MapRemove(m, k) == [x \in DOMAIN m \ {k} |-> m[x]]

\* a variant of subject_version in which the greatest version is taken
subject_version_last(versions) ==
    LET vs == VersionsAscending(versions)
    IN  IF vs = <<>> THEN <<>> ELSE <<vs[Len(vs)]>>

\* subject_usage.versions.values().next(): None is <<>>, Some(v) is <<v>>
subject_version(versions) ==
    LET vs == VersionsAscending(versions)
    IN  IF vs = <<>> THEN <<>> ELSE <<vs[1]>>

\* the subject of create_bom: the vendor entry and the ledger entry are taken
\* out of the Config and of the ledger; the result, and what is left of both
create_bom_subject(subject_name, pkgs, cfg) ==
    IF subject_name \notin DOMAIN cfg.vendor
    THEN [res |-> Err(<<"subject ", subject_name, " is not in the vendor package list">>),
          log |-> pkgs, config |-> cfg]
    ELSE LET config1 == [cfg EXCEPT !.vendor = MapRemove(@, subject_name)]
         IN  IF subject_name \notin DOMAIN pkgs
             THEN [res |-> Err(<<"Subject crate ", subject_name, " not in build log">>),
                   log |-> pkgs, config |-> config1]
             ELSE LET v == subject_version(pkgs[subject_name].versions)
                      log1 == MapRemove(pkgs, subject_name)
                  IN  IF v = <<>>
                      THEN [res |-> Err(<<"Subject crate ", subject_name,
                                          " does not include a version in build log">>),
                            log |-> log1, config |-> config1]
                      ELSE [res |-> Ok([crate_name |-> subject_name,
                                        version |-> v[1],
                                        url |-> cfg.vendor[subject_name].url]),
                            log |-> log1, config |-> config1]

\* LicenseInfo::OpenSource of every license of a package
RECURSIVE OpenSources(_)
OpenSources(lics) ==
    IF lics = <<>> THEN <<>>
    ELSE <<[spdx_short |-> spdx_short(Head(lics)).value,
            copyrights |-> License_copyright(Head(lics))]>> \o OpenSources(Tail(lics))

\* a variant of create_bom_dep in which an identity that is in neither map is
\* emitted as an open source dependency without licenses
create_bom_dep_defaulted(id, usage, cfg) ==
    IF id \in DOMAIN cfg.vendor
    THEN Ok([crate_name |-> id, url |-> cfg.vendor[id].url,
             versions |-> VersionsAscending(usage.versions),
             license |-> [type |-> "Vendor", licenses |-> <<>>]])
    ELSE IF id \notin DOMAIN cfg.third_party
    THEN Ok([crate_name |-> id, url |-> "",
             versions |-> VersionsAscending(usage.versions),
             license |-> [type |-> "OpenSource", licenses |-> <<>>]])
    ELSE LET pkg == cfg.third_party[id]
         IN  IF HasUnknown(pkg.licenses) THEN Panic("You must define unknown licenses")
             ELSE Ok([crate_name |-> id, url |-> Package_url(pkg),
                      versions |-> VersionsAscending(usage.versions),
                      license |-> [type |-> "OpenSource",
                                   licenses |-> OpenSources(pkg.licenses)]])

\* the body of the loop of create_bom: the Dependency of one ledger entry
create_bom_dep(id, usage, cfg) ==
    IF id \in DOMAIN cfg.vendor
    THEN Ok([crate_name |-> id, url |-> cfg.vendor[id].url,
             versions |-> VersionsAscending(usage.versions),
             license |-> [type |-> "Vendor", licenses |-> <<>>]])
    ELSE IF id \notin DOMAIN cfg.third_party
    THEN Err(<<"3rd party package not found in allow-list: ", id>>)
    ELSE LET pkg == cfg.third_party[id]
         IN  IF HasUnknown(pkg.licenses) THEN Panic("You must define unknown licenses")
             ELSE Ok([crate_name |-> id, url |-> Package_url(pkg),
                      versions |-> VersionsAscending(usage.versions),
                      license |-> [type |-> "OpenSource",
                                   licenses |-> OpenSources(pkg.licenses)]])

\* a variant of create_bom_deps in which each Dependency is put in front of
\* the list
RECURSIVE create_bom_deps_front(_, _, _, _)
create_bom_deps_front(ids, pkgs, cfg, dependencies) ==
    IF ids = <<>> THEN Ok(dependencies)
    ELSE LET d == create_bom_dep(Head(ids), pkgs[Head(ids)], cfg)
         IN  IF ~d.ok THEN d
             ELSE create_bom_deps_front(Tail(ids), pkgs, cfg, <<d.value>> \o dependencies)

\* `for (id, usage) in log.packages { .. dependencies.push(dep) }`
RECURSIVE create_bom_deps(_, _, _, _)
create_bom_deps(ids, pkgs, cfg, dependencies) ==
    IF ids = <<>> THEN Ok(dependencies)
    ELSE LET d == create_bom_dep(Head(ids), pkgs[Head(ids)], cfg)
         IN  IF ~d.ok THEN d
             ELSE create_bom_deps(Tail(ids), pkgs, cfg, Append(dependencies, d.value))

\* create_bom(subject_name, log, config); the timestamp of the Bom is the
\* clock's and is left out
create_bom(subject_name, log, cfg) ==
    LET s == create_bom_subject(subject_name, remove_build_deps(log, cfg), cfg)
    IN  IF ~s.res.ok THEN s.res
        ELSE LET d == create_bom_deps(StringsAscending(DOMAIN s.log), s.log, s.config, <<>>)
             IN  IF ~d.ok THEN d
                 ELSE Ok([subject |-> s.res.value, dependencies |-> d.value])

\* Package::licenses: the SPDX expressions, parse_lax of an SPDX identifier
Package_licenses(pkg) ==
    IF HasUnknown(pkg.licenses) THEN Panic("You must define unknown licenses")
    ELSE Ok(SpdxShorts(pkg.licenses))

\* License::copyrights: None is <<>>, Some(lines) is <<lines>>
License_copyrights(lic) ==
    IF lic.tag = "Unknown" THEN Panic("You must define unknown licenses")
    ELSE Ok(IF lic.tag \in WithCopyright THEN <<Copyright_lines(lic.copyright)>> ELSE <<>>)

\* the lines Package::copyright collects
RECURSIVE CopyrightsOf(_)
CopyrightsOf(lics) ==
    IF lics = <<>> THEN <<>>
    ELSE LET c == License_copyrights(Head(lics)).value
         IN  (IF c = <<>> THEN <<>> ELSE c[1]) \o CopyrightsOf(Tail(lics))

\* Package::copyright: None is <<>>; the lines are joined with line breaks,
\* which NormalizedString::new turns into spaces
Package_copyright(pkg) ==
    IF HasUnknown(pkg.licenses) THEN Panic("You must define unknown licenses")
    ELSE LET lines == CopyrightsOf(pkg.licenses)
         IN  Ok(IF lines = <<>> THEN <<>> ELSE <<Join(lines, " ")>>)

\* Uri::try_from: the empty string is not a URI
Uri_try_from(s) == IF s = "" THEN Err(<<"invalid uri">>) ELSE Ok(s)

\* TargetInfo::vendor_licenses
TargetInfo_vendor_licenses(t) ==
    LET url == Uri_try_from(t.license_url)
    IN  IF ~url.ok THEN url
        ELSE Ok(<<[name |-> "Custom non-commercial license", url |-> url.value]>>)

\* get_component for every version of one ledger entry
Components(name, versions, licenses, copyright) ==
    [i \in 1..Len(versions) |->
        [name |-> name, version |-> VersionToString(versions[i]),
         licenses |-> licenses, copyright |-> copyright]]

\* the body of the loop of gen_bom: the components of one ledger entry
gen_bom_item(name, usage, cfg, target) ==
    LET versions == VersionsAscending(usage.versions)
    IN  IF name = target.name THEN Ok(<<>>)
        ELSE IF name \in DOMAIN cfg.third_party
        THEN LET package == cfg.third_party[name]
             IN  IF versions = <<>> THEN Ok(<<>>)
                 ELSE IF ~Package_licenses(package).ok THEN Package_licenses(package)
                 ELSE IF ~Package_copyright(package).ok THEN Package_copyright(package)
                 ELSE Ok(Components(name, versions, Package_licenses(package).value,
                                    Package_copyright(package).value))
        ELSE IF name \notin DOMAIN cfg.vendor
        THEN Err(<<"Unknown dependency: ", name>>)
        ELSE IF versions = <<>> THEN Ok(<<>>)
        ELSE IF ~TargetInfo_vendor_licenses(target).ok
        THEN TargetInfo_vendor_licenses(target)
        ELSE Ok(Components(name, versions, TargetInfo_vendor_licenses(target).value,
                           <<"Copyright Step Function I/O LLC">>))

\* `for (name, usage) in log.packages.iter()` of gen_bom
RECURSIVE gen_bom_components(_, _, _, _, _)
gen_bom_components(names, pkgs, cfg, target, components) ==
    IF names = <<>> THEN Ok(components)
    ELSE LET c == gen_bom_item(Head(names), pkgs[Head(names)], cfg, target)
         IN  IF ~c.ok THEN c
             ELSE gen_bom_components(Tail(names), pkgs, cfg, target, components \o c.value)

\* gen_bom(target, log_path, config_path) on the ledger and the Config read:
\* the ledger after pruning, the result and the Bom written to standard
\* output; serial number and timestamp are left out
gen_bom(target, log, cfg) ==
    IF target \notin DOMAIN cfg.targets
    THEN [log |-> log, res |-> Err(<<"Target not found in config file: ", target>>),
          w |-> <<>>]
    ELSE LET t == cfg.targets[target]
             pruned == remove_build_deps(log, cfg)
             c == gen_bom_components(StringsAscending(DOMAIN pruned), pruned, cfg, t, <<>>)
         IN  IF ~c.ok THEN [log |-> pruned, res |-> c, w |-> <<>>]
             ELSE IF ~Uri_try_from(t.license_url).ok
             THEN [log |-> pruned, res |-> Uri_try_from(t.license_url), w |-> <<>>]
             ELSE [log |-> pruned, res |-> Ok("unit"),
                   w |-> <<[name |-> t.name, version |-> t.version,
                            components |-> c.value]>>]

\* the ledger of versions of one component
DepsInsert(deps, name, version) ==
    IF name \in DOMAIN deps THEN [deps EXCEPT ![name] = @ \cup {version}]
    ELSE MapInsert(deps, name, {version})

\* a variant of extract_deps_item in which the build-only and vendor names are
\* skipped before the version is looked at
extract_deps_item_skip_first(deps, component, cfg) ==
    IF component.name \in cfg.build_only THEN Ok(deps)
    ELSE IF component.name \in DOMAIN cfg.vendor THEN Ok(deps)
    ELSE IF component.version = <<>>
    THEN Err(<<"Missing version in component ", component.name>>)
    ELSE LET version == VersionParse(component.version[1])
         IN  IF ~version.ok THEN Err(version.err)
             ELSE Ok(DepsInsert(deps, component.name, version.version))

\* the body of the loop of extract_deps
extract_deps_item(deps, component, cfg) ==
    IF component.version = <<>>
    THEN Err(<<"Missing version in component ", component.name>>)
    ELSE LET version == VersionParse(component.version[1])
         IN  IF ~version.ok THEN Err(version.err)
             ELSE IF component.name \in cfg.build_only THEN Ok(deps)
             ELSE IF component.name \in DOMAIN cfg.vendor THEN Ok(deps)
             ELSE Ok(DepsInsert(deps, component.name, version.version))

RECURSIVE extract_deps_loop(_, _, _)
extract_deps_loop(components, cfg, deps) ==
    IF components = <<>> THEN Ok(deps)
    ELSE LET r == extract_deps_item(deps, Head(components), cfg)
         IN  IF ~r.ok THEN r ELSE extract_deps_loop(Tail(components), cfg, r.value)

\* extract_deps(bom, config): bom.components is <<>> for None, <<list>> for Some
extract_deps(bom, cfg) ==
    IF bom.components = <<>> THEN Err(<<"required field 'components' is 'None'">>)
    ELSE extract_deps_loop(bom.components[1], cfg, EmptyMap)

\* gen_licenses of allow-list on the Bom and the Config read
allow_list_gen_licenses(bom, cfg) ==
    LET components == extract_deps(bom, cfg)
    IN  IF ~components.ok THEN [res |-> components, w |-> <<>>]
        ELSE gen_licenses_for(components.value, cfg)

\* a variant of MergeDeps in which the versions of a later Bom replace those
\* of an earlier one
MergeDeps_replace(components, deps) ==
    [name \in DOMAIN components \cup DOMAIN deps |->
        IF name \in DOMAIN deps THEN deps[name] ELSE components[name]]

\* `for (name, versions) in extract_deps(..)? { match components.entry(name) .. }`
MergeDeps(components, deps) ==
    [name \in DOMAIN components \cup DOMAIN deps |->
        IF name \notin DOMAIN components THEN deps[name]
        ELSE IF name \notin DOMAIN deps THEN components[name]
        ELSE components[name] \cup deps[name]]

\* `for item in read_dir(list_dir)?` of gen_licenses_in_dirs over the Boms of
\* the directories, in the order visited
RECURSIVE gen_licenses_in_dirs_loop(_, _, _)
gen_licenses_in_dirs_loop(boms, cfg, components) ==
    IF boms = <<>> THEN Ok(components)
    ELSE LET deps == extract_deps(Head(boms), cfg)
         IN  IF ~deps.ok THEN deps
             ELSE gen_licenses_in_dirs_loop(Tail(boms), cfg,
                                            MergeDeps(components, deps.value))

\* gen_licenses_in_dirs on the Boms of the directories and the Config read
gen_licenses_in_dirs(boms, cfg) ==
    LET components == gen_licenses_in_dirs_loop(boms, cfg, EmptyMap)
    IN  IF ~components.ok THEN [res |-> components, w |-> <<>>]
        ELSE gen_licenses_for(components.value, cfg)

----------------------------------------------------------------------------
(* The commands *)

Commands ==
    {"gen_licenses_for", "cargo_bom_gen_licenses", "main_gen_licenses",
     "generate_config", "diff_tree", "create_bom", "gen_bom",
     "allow_list_gen_licenses", "gen_licenses_in_dirs"}

InitCmd ==
    /\ entry \in Commands
    /\ pc = "start"
    /\ packages = EmptyMap
    /\ result = "none"
    /\ log_files = <<>>
    /\ in_log = EmptyMap
    /\ config = NoConfig
    /\ tree = <<>>
    /\ out = <<>>
    /\ errout = <<>>
    /\ input = <<>>
    /\ local = <<>>

\* an input cannot be opened, read or parsed: the `?` returns the error before
\* anything is computed
CommandInputError ==
    /\ pc = "start"
    /\ entry \notin {"gen_licenses_for", "create_bom"}
    /\ pc' = "input_error"
    /\ result' = Err(<<"io error">>)
    /\ UNCHANGED <<input, local, entry, packages, log_files, in_log, config, tree, out, errout>>

GenLicensesFor ==
    /\ pc = "start"
    /\ entry = "gen_licenses_for"
    /\ \E components \in ComponentMaps, cfg \in AllowLists :
        LET r == gen_licenses_for(components, cfg)
        IN  /\ in_log' = components
            /\ config' = cfg
            /\ out' = r.w
            /\ result' = r.res
    /\ pc' = "done"
    /\ UNCHANGED <<input, local, entry, packages, log_files, tree, errout>>

\* gen_licenses of cargo-bom: read_log has returned the ledger, the Config is
\* read
CargoBomReadLog ==
    /\ pc = "start"
    /\ entry = "cargo_bom_gen_licenses"
    /\ \E log \in Ledgers, cfg \in Configs :
        /\ in_log' = log
        /\ packages' = log
        /\ config' = cfg
    /\ pc' = "prune"
    /\ UNCHANGED <<input, local, entry, result, log_files, tree, out, errout>>

\* log.remove_build_deps(&config); log.remove_vendor_deps(&config)
CargoBomPrune ==
    /\ pc = "prune"
    /\ entry = "cargo_bom_gen_licenses"
    /\ packages' = remove_vendor_deps(remove_build_deps(packages, config), config)
    /\ pc' = "report"
    /\ UNCHANGED <<input, local, entry, result, log_files, in_log, config, tree, out, errout>>

\* the rest of gen_licenses, on the pruned ledger (which pruning leaves as it is)
CargoBomGenLicenses ==
    /\ pc = "report"
    /\ entry = "cargo_bom_gen_licenses"
    /\ LET r == cargo_bom_gen_licenses(packages, config)
       IN  /\ out' = r.w
           /\ result' = r.res
    /\ pc' = "done"
    /\ UNCHANGED <<input, local, entry, packages, log_files, in_log, config, tree, errout>>

MainGenLicenses ==
    /\ pc = "start"
    /\ entry = "main_gen_licenses"
    /\ \E log \in Ledgers, cfg \in Configs :
        LET r == main_gen_licenses(log, cfg)
        IN  /\ in_log' = log
            /\ config' = cfg
            /\ packages' = r.log
            /\ out' = r.w
            /\ result' = r.res
    /\ pc' = "done"
    /\ UNCHANGED <<input, local, entry, log_files, tree, errout>>

\* the Config is built and serialised to the output file
GenerateConfig ==
    /\ pc = "start"
    /\ entry = "generate_config"
    /\ \E log \in Ledgers, t \in Trees :
        /\ in_log' = log
        /\ packages' = log
        /\ tree' = t
        /\ config' = generate_config(log, t)
    /\ result' = Ok("unit")
    /\ pc' = "done"
    /\ UNCHANGED <<input, local, entry, log_files, out, errout>>

DiffTree ==
    /\ pc = "start"
    /\ entry = "diff_tree"
    /\ \E log \in Ledgers, t \in Trees :
        LET r == diff_tree(log, t)
        IN  /\ in_log' = log
            /\ packages' = log
            /\ tree' = t
            /\ errout' = r.err
            /\ result' = r.res
    /\ pc' = "done"
    /\ UNCHANGED <<input, local, entry, log_files, config, out>>

\* gen-licenses of bom-tools, run on the same build log with the Config that
\* gen-config wrote, unedited: the ledger is pruned
GenLicensesWithSkeletonPrune ==
    /\ pc = "done"
    /\ entry = "generate_config"
    /\ packages' = remove_vendor_deps(remove_build_deps(packages, config), config)
    /\ pc' = "skeleton_pruned"
    /\ UNCHANGED <<input, local, entry, result, log_files, in_log, config, tree, out, errout>>

\* and the report is written
GenLicensesWithSkeleton ==
    /\ pc = "skeleton_pruned"
    /\ entry = "generate_config"
    /\ LET r == cargo_bom_gen_licenses(packages, config)
       IN  /\ out' = r.w
           /\ result' = r.res
    /\ pc' = "skeleton_report"
    /\ UNCHANGED <<input, local, entry, packages, log_files, in_log, config, tree, errout>>

\* create_bom is called with a subject name, a ledger and a Config
CreateBomCall ==
    /\ pc = "start"
    /\ entry = "create_bom"
    /\ \E subject_name \in BomSubjects, log \in BomLedgers, cfg \in BomConfigs :
        /\ in_log' = log
        /\ packages' = log
        /\ config' = cfg
        /\ local' = [subject_name |-> subject_name, config |-> cfg]
    /\ pc' = "prune"
    /\ UNCHANGED <<input, entry, result, log_files, tree, out, errout>>

\* log.remove_build_deps(&config)
CreateBomPrune ==
    /\ pc = "prune"
    /\ entry = "create_bom"
    /\ packages' = remove_build_deps(packages, config)
    /\ pc' = "subject"
    /\ UNCHANGED <<input, local, entry, result, log_files, in_log, config, tree, out, errout>>

\* the subject is taken out of config.vendor and of log.packages
CreateBomSubject ==
    /\ pc = "subject"
    /\ entry = "create_bom"
    /\ LET s == create_bom_subject(local.subject_name, packages, config)
       IN  /\ packages' = s.log
           /\ config' = s.config
           /\ IF s.res.ok
              THEN /\ local' = [subject_name |-> local.subject_name,
                                config |-> local.config, subject |-> s.res.value]
                   /\ pc' = "deps"
                   /\ UNCHANGED result
              ELSE /\ result' = s.res
                   /\ pc' = "done"
                   /\ UNCHANGED local
    /\ UNCHANGED <<input, entry, log_files, in_log, tree, out, errout>>

\* the loop over log.packages, and the Bom
CreateBomDeps ==
    /\ pc = "deps"
    /\ entry = "create_bom"
    /\ LET d == create_bom_deps(StringsAscending(DOMAIN packages), packages, config, <<>>)
       IN  result' = IF ~d.ok THEN d
                     ELSE Ok([subject |-> local.subject, dependencies |-> d.value])
    /\ pc' = "done"
    /\ UNCHANGED <<input, local, entry, packages, log_files, in_log, config, tree, out, errout>>

GenBom ==
    /\ pc = "start"
    /\ entry = "gen_bom"
    /\ \E log \in BomLedgers, cfg \in GenBomConfigs :
        LET r == gen_bom("lib", log, cfg)
        IN  /\ in_log' = log
            /\ config' = cfg
            /\ packages' = r.log
            /\ out' = r.w
            /\ result' = r.res
    /\ pc' = "done"
    /\ UNCHANGED <<input, local, entry, log_files, tree, errout>>

\* gen_licenses of allow-list; local is what extract_deps returned
AllowListGenLicenses ==
    /\ pc = "start"
    /\ entry = "allow_list_gen_licenses"
    /\ \E bom \in Boms, cfg \in ScanConfigs :
        LET r == allow_list_gen_licenses(bom, cfg)
        IN  /\ input' = bom
            /\ config' = cfg
            /\ local' = extract_deps(bom, cfg)
            /\ out' = r.w
            /\ result' = r.res
    /\ pc' = "done"
    /\ UNCHANGED <<entry, packages, log_files, in_log, tree, errout>>

\* gen_licenses_in_dirs; input is the Boms of the directories in the order
\* read_dir yields them, local is the merged components
GenLicensesInDirs ==
    /\ pc = "start"
    /\ entry = "gen_licenses_in_dirs"
    /\ \E boms \in UNION {[1..n -> DirBoms] : n \in 0..MaxDirs}, cfg \in ScanConfigs :
        LET r == gen_licenses_in_dirs(boms, cfg)
        IN  /\ input' = boms
            /\ config' = cfg
            /\ local' = gen_licenses_in_dirs_loop(boms, cfg, EmptyMap)
            /\ out' = r.w
            /\ result' = r.res
    /\ pc' = "done"
    /\ UNCHANGED <<entry, packages, log_files, in_log, tree, errout>>

NextCmd ==
    \/ CommandInputError
    \/ GenLicensesWithSkeletonPrune
    \/ GenLicensesWithSkeleton
    \/ GenLicensesFor
    \/ CargoBomReadLog
    \/ CargoBomPrune
    \/ CargoBomGenLicenses
    \/ MainGenLicenses
    \/ GenerateConfig
    \/ DiffTree
    \/ CreateBomCall
    \/ CreateBomPrune
    \/ CreateBomSubject
    \/ CreateBomDeps
    \/ GenBom
    \/ AllowListGenLicenses
    \/ GenLicensesInDirs

SpecCmd == InitCmd /\ [][NextCmd]_vars

----------------------------------------------------------------------------
(* Claims about the commands *)

Done(cmd) == entry = cmd /\ pc = "done"

Quoted(id) == "\"" \o id \o "\""

\* the names the command looked up in Config.third_party and did not find
Unlisted(log) == DOMAIN log \ DOMAIN config.third_party

\* some name that is looked up has a license list holding License::Unknown
UnknownListed(log) ==
    \E id \in DOMAIN log \cap DOMAIN config.third_party :
        HasUnknown(config.third_party[id].licenses)

IsAllowListError(r) ==
    IsErr(r) /\ r.err[1] = "These 3rd party packages are not in the allow list: "

C5_BatchReport ==
    ((Done("cargo_bom_gen_licenses") \/ Done("main_gen_licenses"))
        /\ IsErr(result) /\ Unlisted(packages) # {}) =>
        \A id \in Unlisted(packages) : id \in Range(result.err)

\* C6: a license-report run that returns an error has emitted nothing to its
\* writer.
C6_NoPartialOutput ==
    ((Done("gen_licenses_for") \/ Done("cargo_bom_gen_licenses")
        \/ Done("main_gen_licenses")) /\ IsErr(result)) =>
        out = <<>>

\* C7: in the Config generate_config writes, every identity is in at most one
\* of build_only, vendor and third_party.
C7_DisjointCategories ==
    Done("generate_config") =>
        /\ config.build_only \cap DOMAIN config.third_party = {}
        /\ config.build_only \cap DOMAIN config.vendor = {}
        /\ DOMAIN config.vendor \cap DOMAIN config.third_party = {}

\* C8: generate_config puts a ledger identity none of whose (identity, version)
\* pairs occurs in the tree in build_only and not in third_party, and an
\* identity with a pair in the tree in third_party, with an empty license
\* list, its id the identity and source crates.io; it classifies no identity
\* that is not in the ledger.
C8_ClassifiedByTree ==
    Done("generate_config") =>
        /\ \A id \in DOMAIN in_log :
            IF \E k \in 1..Len(tree) :
                   tree[k].id = id /\ tree[k].version \in in_log[id].versions
            THEN /\ id \in DOMAIN config.third_party
                 /\ config.third_party[id]
                        = [id |-> id, source |-> "crates.io", licenses |-> <<>>]
            ELSE /\ id \in config.build_only
                 /\ id \notin DOMAIN config.third_party
        /\ config.build_only \cup DOMAIN config.third_party \subseteq DOMAIN in_log

\* C8 witness: an identity that is in the tree only at a version the log does
\* not hold is build-only, and another one is third-party
C8_Witness ==
    /\ Done("generate_config")
    /\ \E id \in DOMAIN in_log :
        /\ \E k \in 1..Len(tree) : tree[k].id = id
        /\ id \in config.build_only
        /\ id \notin DOMAIN config.third_party
    /\ DOMAIN config.third_party # {}

LogLine(id, v) ==
    <<"Log contains dependency ", id, " version ", VersionToString(v),
      " not found in the tree">>

TreeIdLine(id) == <<"Tree contains dependency ", id, " not found in build log!">>

TreeVersionLine(id, v) ==
    <<"Tree contains dependency ", id, " version ", VersionToString(v),
      " not found in build log!">>

Count(lines, line) == Cardinality({k \in 1..Len(lines) : lines[k] = line})

\* C9: diff_tree writes the 'log but not tree' warning of an (identity, version)
\* pair exactly when the pair is in the ledger and no tree dependency has both
\* that identity and that version, once per pair, whether or not the first
\* direction produced warnings.
C9_LogNotTree ==
    Done("diff_tree") =>
        \A id \in CrateNames : \A v \in Versions :
            /\ LogLine(id, v) \in Range(errout) <=>
                /\ id \in DOMAIN in_log
                /\ v \in in_log[id].versions
                /\ ~\E k \in 1..Len(tree) : tree[k].id = id /\ tree[k].version = v
            /\ Count(errout, LogLine(id, v)) <= 1

\* C9 witness: the ledger holds a at 1.0.0 and 1.10.0, the tree holds
\* (a, 1.0.0) and a dependency that is not in the ledger; the first direction
\* warned, and there is a warning for 1.10.0 and none for 1.0.0
C9_Witness ==
    /\ Done("diff_tree")
    /\ DOMAIN in_log = {"a"}
    /\ in_log["a"].versions = {<<1, 0, 0>>, <<1, 10, 0>>}
    /\ \E k \in 1..Len(tree) : tree[k] = [id |-> "a", version |-> <<1, 0, 0>>]
    /\ TreeIdLine("b") \in Range(errout)
    /\ LogLine("a", <<1, 10, 0>>) \in Range(errout)
    /\ LogLine("a", <<1, 0, 0>>) \notin Range(errout)

TreeMismatch(k) ==
    \/ tree[k].id \notin DOMAIN in_log
    \/ tree[k].version \notin in_log[tree[k].id].versions

\* C10: diff_tree writes a 'tree but not log' warning for a tree dependency
\* exactly when its identity is not in the ledger or its version is not in
\* that identity's version set, one warning per such dependency, and returns
\* success whatever the number of warnings.
C10_TreeNotLog ==
    Done("diff_tree") =>
        /\ result = Ok("unit")
        /\ \A id \in CrateNames :
            /\ Count(errout, TreeIdLine(id))
                = Cardinality({k \in 1..Len(tree) :
                                 tree[k].id = id /\ id \notin DOMAIN in_log})
            /\ \A v \in Versions :
                Count(errout, TreeVersionLine(id, v))
                    = Cardinality({k \in 1..Len(tree) :
                                     /\ tree[k] = [id |-> id, version |-> v]
                                     /\ id \in DOMAIN in_log
                                     /\ v \notin in_log[id].versions})
        /\ Len(errout)
            = Cardinality({k \in 1..Len(tree) : TreeMismatch(k)})
                + Cardinality({p \in Dependencies :
                                 /\ p.id \in DOMAIN in_log
                                 /\ p.version \in in_log[p.id].versions
                                 /\ ~\E k \in 1..Len(tree) : tree[k] = p})

\* C10 witness: one dependency whose identity is not in the ledger and one
\* whose version is not, both reported, and diff_tree returned Ok
C10_Witness ==
    /\ Done("diff_tree")
    /\ \E id \in CrateNames : TreeIdLine(id) \in Range(errout)
    /\ \E id \in CrateNames : \E v \in Versions : TreeVersionLine(id, v) \in Range(errout)
    /\ Len(errout) >= 3
    /\ result.ok

----------------------------------------------------------------------------
(* The dependency tree: src/src/tree.rs *)

AsciiLetters ==
    {"a", "b", "c", "d", "e", "f", "g", "h", "i", "j", "k", "l", "m", "n", "o", "p", "q",
     "r", "s", "t", "u", "v", "w", "x", "y", "z", "A", "B", "C", "D", "E", "F", "G", "H",
     "I", "J", "K", "L", "M", "N", "O", "P", "Q", "R", "S", "T", "U", "V", "W", "X", "Y",
     "Z"}

\* char::is_ascii_alphanumeric
is_ascii_alphanumeric(c) == IsDigit(c) \/ c \in AsciiLetters

\* next.chars().all(|c| c.is_ascii_alphanumeric() || c == '_' || c == '-')
IsIdToken(tok) ==
    \A i \in 1..Len(tok) : is_ascii_alphanumeric(tok[i]) \/ tok[i] = "_" \/ tok[i] = "-"

\* a variant of get_package_id in which the first token is the id whatever
\* its characters
get_package_id_first_token(iter) ==
    IF iter = <<>> THEN [res |-> Err(<<"Line missing package id">>), iter |-> <<>>]
    ELSE [res |-> Ok(to_string(Head(iter))), iter |-> Tail(iter)]

\* get_package_id(iter): what it returns and the tokens it leaves in iter
RECURSIVE get_package_id(_)
get_package_id(iter) ==
    IF iter = <<>> THEN [res |-> Err(<<"Line missing package id">>), iter |-> <<>>]
    ELSE IF IsIdToken(Head(iter))
    THEN [res |-> Ok(to_string(Head(iter))), iter |-> Tail(iter)]
    ELSE get_package_id(Tail(iter))

\* str::strip_prefix('v'): None is <<>>, Some(x) is <<x>>
strip_prefix_v(tok) == IF tok # <<>> /\ tok[1] = "v" THEN <<Tail(tok)>> ELSE <<>>

\* a variant of Dependency_version in which the tokens after the identity are
\* searched for the first one that begins with 'v'
RECURSIVE Dependency_version_search(_, _)
Dependency_version_search(id, iter) ==
    IF iter = <<>> THEN Err(<<"line missing version">>)
    ELSE LET stripped == strip_prefix_v(Head(iter))
         IN  IF stripped = <<>> THEN Dependency_version_search(id, Tail(iter))
             ELSE LET v == VersionParse(stripped[1])
                  IN  IF ~v.ok THEN Err(v.err) ELSE Ok([id |-> id, version |-> v.version])

\* Dependency::from_str after get_package_id: the version is taken from the
\* next token of iter
Dependency_version(id, iter) ==
    IF iter = <<>> THEN Err(<<"line missing version">>)
    ELSE LET stripped == strip_prefix_v(Head(iter))
         IN  IF stripped = <<>> THEN Err(<<"version does not begin 'v'">>)
             ELSE LET v == VersionParse(stripped[1])
                  IN  IF ~v.ok THEN Err(v.err) ELSE Ok([id |-> id, version |-> v.version])

\* a variant of Dependency_from_str in which a token left after the version
\* is an error
Dependency_from_str_strict(s) ==
    LET g == get_package_id(split_ascii_whitespace(s))
    IN  IF ~g.res.ok THEN g.res
        ELSE IF Len(g.iter) > 1 THEN Err(<<"unexpected token">>)
        ELSE Dependency_version(g.res.value, g.iter)

\* Dependency::from_str
Dependency_from_str(s) ==
    LET g == get_package_id(split_ascii_whitespace(s))
    IN  IF ~g.res.ok THEN g.res ELSE Dependency_version(g.res.value, g.iter)

\* a byte sequence of the reader that is not UTF-8, as one element of the text
InvalidUtf8 == "<ff>"

\* one item of BufRead::lines: the line without its "\n" or "\r\n", or the
\* error of a line that is not UTF-8
read_line(raw, terminated) ==
    IF InvalidUtf8 \in Range(raw) THEN Err(<<"stream did not contain valid UTF-8">>)
    ELSE IF terminated /\ raw # <<>> /\ raw[Len(raw)] = "\r"
    THEN Ok(SubSeq(raw, 1, Len(raw) - 1))
    ELSE Ok(raw)

\* the index of the first "\n" of a text, 0 if it has none
FirstNewline(s) ==
    LET at == {i \in 1..Len(s) : s[i] = "\n"}
    IN  IF at = {} THEN 0 ELSE CHOOSE i \in at : \A j \in at : i <= j

\* BufRead::lines, collected: the text is cut after every "\n"; what follows
\* the last "\n" is a line if it is not empty
RECURSIVE LinesFrom(_)
LinesFrom(s) ==
    IF s = <<>> THEN <<>>
    ELSE LET k == FirstNewline(s)
         IN  IF k = 0 THEN <<read_line(s, FALSE)>>
             ELSE <<read_line(SubSeq(s, 1, k - 1), TRUE)>>
                    \o LinesFrom(SubSeq(s, k + 1, Len(s)))

BufRead_lines(text) == LinesFrom(text)

\* a variant of skip_first in which the first line is kept
skip_none(lines) == lines

\* `lines.next();`: the first item, line or error, is dropped
skip_first(lines) == IF lines = <<>> THEN <<>> ELSE Tail(lines)

\* a variant of parse_tree_item in which a line that does not parse is
\* passed over
parse_tree_item_skip_bad(deps, line) ==
    IF ~line.ok THEN line
    ELSE LET dep == Dependency_from_str(line.value)
         IN  IF ~dep.ok THEN Ok(deps) ELSE Ok(Append(deps, dep.value))

\* a variant of parse_tree_item in which a dependency already in deps is not
\* pushed again
parse_tree_item_dedup(deps, line) ==
    IF ~line.ok THEN line
    ELSE LET dep == Dependency_from_str(line.value)
         IN  IF ~dep.ok THEN dep
             ELSE IF dep.value \in Range(deps) THEN Ok(deps)
             ELSE Ok(Append(deps, dep.value))

\* one iteration of the loop of parse_tree: deps after the line, or the error
\* parse_tree returns
parse_tree_item(deps, line) ==
    IF ~line.ok THEN line
    ELSE LET dep == Dependency_from_str(line.value)
         IN  IF ~dep.ok THEN dep ELSE Ok(Append(deps, dep.value))

RECURSIVE parse_tree_loop(_, _)
parse_tree_loop(deps, lines) ==
    IF lines = <<>> THEN Ok(deps)
    ELSE LET r == parse_tree_item(deps, Head(lines))
         IN  IF r.ok THEN parse_tree_loop(r.value, Tail(lines)) ELSE r

\* parse_tree(reader) as a function of the text of the reader
parse_tree(text) == parse_tree_loop(<<>>, skip_first(BufRead_lines(text)))

----------------------------------------------------------------------------
(* The texts the parsers are given *)

\* tokens of a package descriptor after whitespace is split off
MaxWords == 4
\* tokens of a tree line from the identity on
MaxTokens == 3
\* tree-drawing tokens at the start of a tree line
MaxGlyphs == 2
\* lines of a tree dump
MaxLines == 3

SeqsUpTo(S, n) == UNION {[1..k -> S] : k \in 0..n}

\* the tokens separated by one space
RECURSIVE Words(_)
Words(toks) ==
    IF toks = <<>> THEN <<>>
    ELSE IF Len(toks) = 1 THEN toks[1]
    ELSE toks[1] \o Sp \o Words(Tail(toks))

\* leading white space of a line: none, or a tab and a space
Leads == {<<>>, <<"\t", " ">>}

DescriptorTokens ==
    {<<"a">>, <<"1", ".", "0", ".", "0">>, <<"1", ".", "x">>, <<"s">>}

\* the strings PackageInfo::from_str is given
Descriptors == {l \o Words(ts) : l \in Leads, ts \in SeqsUpTo(DescriptorTokens, MaxWords)}

\* the tree-drawing tokens of `cargo tree`: the box-drawing characters are
\* not ASCII, "|", "+" and "~" stand for them
GlyphTokens == {<<"|">>, <<"+", "~", "~">>}

TracingCore == <<"t", "r", "a", "c", "i", "n", "g", "-", "c", "o", "r", "e">>

\* an identity, a version, a version without the 'v', a version that is not
\* a semantic version, and the marker of a repeated subtree
LineTokens ==
    {TracingCore,
     <<"v", "0", ".", "1", ".", "2", "8">>,
     <<"0", ".", "1", ".", "2", "8">>,
     <<"v", "1", ".", "x">>,
     <<"(", "*", ")">>}

\* the lines Dependency::from_str is given
TreeLines ==
    {l \o Words(gs \o ts) :
        l \in Leads, gs \in SeqsUpTo(GlyphTokens, MaxGlyphs), ts \in SeqsUpTo(LineTokens, MaxTokens)}

\* the lines of the dumps parse_tree is given: lines that parse (one with a
\* marker, one that ended in "\r\n"), and lines that do not: a version without
\* 'v', a blank line, a line that is not UTF-8
DumpLines ==
    {Words(<<TracingCore, <<"v", "0", ".", "1", ".", "2", "8">>>>),
     Words(<<<<"|">>, <<"+", "~", "~">>, TracingCore, <<"v", "0", ".", "1", ".", "2", "8">>,
             <<"(", "*", ")">>>>),
     Words(<<<<"+", "~", "~">>, <<"a", "_", "1">>, <<"v", "1", ".", "0", ".", "0">>>>) \o <<"\r">>,
     Words(<<<<"|">>, TracingCore, <<"0", ".", "1", ".", "2", "8">>>>),
     <<>>,
     <<"|", " ", InvalidUtf8>>}

RECURSIVE Terminated(_)
Terminated(ls) == IF ls = <<>> THEN <<>> ELSE Head(ls) \o <<"\n">> \o Terminated(Tail(ls))

\* the texts parse_tree reads: every line ends in "\n", the last one may not
Dumps ==
    {Terminated(ls) : ls \in SeqsUpTo(DumpLines, MaxLines)}
        \cup {Terminated(ls) \o l : ls \in SeqsUpTo(DumpLines, MaxLines - 1), l \in DumpLines}

----------------------------------------------------------------------------
(* The parsers: PackageInfo::from_str, Dependency::from_str, parse_tree *)

Parsers == {"PackageInfo_from_str", "Dependency_from_str", "parse_tree"}

InitParse ==
    /\ entry \in Parsers
    /\ pc = "start"
    /\ input \in (CASE entry = "PackageInfo_from_str" -> Descriptors
                    [] entry = "Dependency_from_str" -> TreeLines
                    [] entry = "parse_tree" -> Dumps)
    /\ local = <<>>
    /\ packages = EmptyMap
    /\ result = "none"
    /\ log_files = <<>>
    /\ in_log = EmptyMap
    /\ config = NoConfig
    /\ tree = <<>>
    /\ out = <<>>
    /\ errout = <<>>

ParseUnchanged == UNCHANGED <<entry, input, packages, log_files, in_log, config, out, errout>>

PackageInfoFromStr ==
    /\ entry = "PackageInfo_from_str"
    /\ pc = "start"
    /\ result' = PackageInfo_from_str(input)
    /\ pc' = "done"
    /\ UNCHANGED <<local, tree>>
    /\ ParseUnchanged

\* Dependency::from_str: `let id = get_package_id(&mut iter)?;`
GetPackageId ==
    /\ entry = "Dependency_from_str"
    /\ pc = "start"
    /\ LET g == get_package_id(split_ascii_whitespace(input))
       IN  IF g.res.ok
           THEN /\ local' = [id |-> g.res.value, iter |-> g.iter]
                /\ pc' = "version"
                /\ UNCHANGED result
           ELSE /\ result' = g.res
                /\ pc' = "done"
                /\ UNCHANGED local
    /\ UNCHANGED tree
    /\ ParseUnchanged

\* Dependency::from_str: the version token, its prefix, the semantic version
ParseVersion ==
    /\ entry = "Dependency_from_str"
    /\ pc = "version"
    /\ result' = Dependency_version(local.id, local.iter)
    /\ pc' = "done"
    /\ UNCHANGED <<local, tree>>
    /\ ParseUnchanged

\* parse_tree: the reader is wrapped and the first line is dropped
ParseTreeSkipFirst ==
    /\ entry = "parse_tree"
    /\ pc = "start"
    /\ local' = [lines |-> skip_first(BufRead_lines(input))]
    /\ pc' = "loop"
    /\ UNCHANGED <<result, tree>>
    /\ ParseUnchanged

\* parse_tree: one iteration of `for line in lines`
ParseTreeLine ==
    /\ entry = "parse_tree"
    /\ pc = "loop"
    /\ local.lines # <<>>
    /\ LET r == parse_tree_item(tree, Head(local.lines))
       IN  IF r.ok
           THEN /\ tree' = r.value
                /\ local' = [lines |-> Tail(local.lines)]
                /\ UNCHANGED <<pc, result>>
           ELSE /\ result' = r
                /\ pc' = "done"
                /\ UNCHANGED <<tree, local>>
    /\ ParseUnchanged

\* parse_tree: the lines are exhausted, `Ok(deps)`
ParseTreeReturn ==
    /\ entry = "parse_tree"
    /\ pc = "loop"
    /\ local.lines = <<>>
    /\ result' = Ok(tree)
    /\ pc' = "done"
    /\ UNCHANGED <<local, tree>>
    /\ ParseUnchanged

NextParse ==
    \/ PackageInfoFromStr
    \/ GetPackageId
    \/ ParseVersion
    \/ ParseTreeSkipFirst
    \/ ParseTreeLine
    \/ ParseTreeReturn

SpecParse == InitParse /\ [][NextParse]_vars

----------------------------------------------------------------------------
(* Claims about the parsers *)

\* C12: PackageInfo::from_str takes the first three whitespace-delimited
\* tokens as identity, version and source tag: with no token it fails with
\* "missing id", with one with "missing version", with two with "missing
\* source"; with three or more the result is that of the first three tokens
\* alone, Ok exactly when the second token is a semantic version.
C12_ThreeTokens ==
    Done("PackageInfo_from_str") =>
        LET toks == split_ascii_whitespace(input)
        IN  /\ Len(toks) = 0 => result = Err(<<"missing id">>)
            /\ Len(toks) = 1 => result = Err(<<"missing version">>)
            /\ Len(toks) = 2 => result = Err(<<"missing source">>)
            /\ Len(toks) >= 3 =>
                /\ result = PackageInfo_from_str(toks[1] \o Sp \o toks[2] \o Sp \o toks[3])
                /\ result.ok <=> VersionParse(toks[2]).ok
                /\ result.ok =>
                    result.value = [id |-> to_string(toks[1]),
                                    version |-> VersionParse(toks[2]).version,
                                    source |-> to_string(toks[3])]

\* C12 witness: a descriptor with leading white space and a fourth token
\* was parsed into its first three tokens
C12_Witness ==
    /\ Done("PackageInfo_from_str")
    /\ Len(split_ascii_whitespace(input)) = 4
    /\ input[1] = "\t"
    /\ result.ok
    /\ result.value.source = "s"

\* the text after the first "\n"
AfterFirstNewline(text) ==
    IF FirstNewline(text) = 0 THEN <<>>
    ELSE SubSeq(text, FirstNewline(text) + 1, Len(text))

\* line i of the text is read and parses as a dependency
LineParses(text, i) ==
    /\ BufRead_lines(text)[i].ok
    /\ Dependency_from_str(BufRead_lines(text)[i].value).ok

\* C13: parse_tree discards the first line: what it returns is what the loop
\* returns on the lines after the first, it is the same whatever line stands
\* first, and an input of no line or one line gives the empty sequence.
C13_FirstLineDiscarded ==
    Done("parse_tree") =>
        /\ result = parse_tree_loop(<<>>, BufRead_lines(AfterFirstNewline(input)))
        /\ \A l \in DumpLines :
            parse_tree(l \o <<"\n">> \o AfterFirstNewline(input)) = result
        /\ Len(BufRead_lines(input)) <= 1 => result = Ok(<<>>)

\* C13 witness: the first line does not parse as a dependency (or is not
\* UTF-8) and parse_tree returned the dependencies of the other lines
C13_Witness ==
    /\ Done("parse_tree")
    /\ Len(BufRead_lines(input)) >= 2
    /\ ~LineParses(input, 1)
    /\ result.ok
    /\ Len(result.value) >= 1

IdChars == AsciiLetters \cup Range(Digits) \cup {"_", "-"}

\* the position of the leftmost token made of IdChars only, 0 if there is none
LeftmostIdToken(toks) ==
    IF \E k \in 1..Len(toks) : Range(toks[k]) \subseteq IdChars
    THEN CHOOSE k \in 1..Len(toks) :
            /\ Range(toks[k]) \subseteq IdChars
            /\ \A j \in 1..(k - 1) : ~(Range(toks[j]) \subseteq IdChars)
    ELSE 0

\* C14: the identity of a tree line is its leftmost whitespace-delimited token
\* made only of ASCII alphanumerics, '_' and '-', the tokens before it being
\* skipped and the tokens after it left for the version; a line without such a
\* token fails with "Line missing package id".
C14_LeftmostIdToken ==
    (entry = "Dependency_from_str" /\ pc # "start") =>
        LET toks == split_ascii_whitespace(input)
            k == LeftmostIdToken(toks)
        IN  IF k = 0
            THEN pc = "done" /\ result = Err(<<"Line missing package id">>)
            ELSE /\ local.id = to_string(toks[k])
                 /\ local.iter = SubSeq(toks, k + 1, Len(toks))
                 /\ pc = "done" =>
                     /\ result # Err(<<"Line missing package id">>)
                     /\ result.ok => result.value.id = to_string(toks[k])

\* C14 witness: two tree-drawing tokens were skipped and the third token is
\* the identity of the parsed dependency
C14_Witness ==
    /\ Done("Dependency_from_str")
    /\ LeftmostIdToken(split_ascii_whitespace(input)) = 3
    /\ result.ok
    /\ result.value.id = "tracing-core"

\* C15: the token right after the identity token is the version token: without
\* it the line fails with "line missing version", if it does not begin with
\* "v" the line fails with "version does not begin 'v'", otherwise what follows
\* the "v" is parsed as a semantic version and the line fails if that fails; a
\* later token is never taken as the version.
C15_VersionToken ==
    Done("Dependency_from_str") =>
        LET toks == split_ascii_whitespace(input)
            k == LeftmostIdToken(toks)
        IN  k # 0 =>
                IF k = Len(toks) THEN result = Err(<<"line missing version">>)
                ELSE IF toks[k + 1][1] # "v"
                THEN result = Err(<<"version does not begin 'v'">>)
                ELSE IF VersionParse(Tail(toks[k + 1])).ok
                THEN result = Ok([id |-> to_string(toks[k]),
                                  version |-> VersionParse(Tail(toks[k + 1])).version])
                ELSE result = Err(<<"semver parse error">>)

\* C15 witness: the token after the identity does not begin with "v", a later
\* token is a well-formed version, and the line failed on the prefix
C15_Witness ==
    /\ Done("Dependency_from_str")
    /\ LET toks == split_ascii_whitespace(input)
           k == LeftmostIdToken(toks)
       IN  /\ k # 0
           /\ k + 2 <= Len(toks)
           /\ toks[k + 1][1] # "v"
           /\ toks[k + 2][1] = "v"
           /\ VersionParse(Tail(toks[k + 2])).ok
    /\ result = Err(<<"version does not begin 'v'">>)

\* C16: tokens after the version token do not affect parsing: a line that
\* parses gives the same identity and version with one or two more tokens
\* appended.
C16_TrailingIgnored ==
    (Done("Dependency_from_str") /\ result.ok) =>
        \A extra \in SeqsUpTo(LineTokens \cup GlyphTokens, 2) :
            Dependency_from_str(input \o Sp \o Words(extra)) = result

\* C16 witness: the line of two tree-drawing tokens, tracing-core, v0.1.28 and
\* (*) gave identity tracing-core and version 0.1.28
C16_Witness ==
    /\ Done("Dependency_from_str")
    /\ split_ascii_whitespace(input)
        = <<<<"|">>, <<"+", "~", "~">>, TracingCore,
            <<"v", "0", ".", "1", ".", "2", "8">>, <<"(", "*", ")">>>>
    /\ result = Ok([id |-> "tracing-core", version |-> <<0, 1, 28>>])

\* C17: parse_tree skips no bad line: if a line after the first cannot be read
\* or does not parse, parse_tree returns an error and no list; when it
\* succeeds the list has one entry per line after the first.
C17_NoSkipBadLine ==
    Done("parse_tree") =>
        LET n == Len(BufRead_lines(input))
        IN  /\ (\E i \in 2..n : ~LineParses(input, i)) => IsErr(result)
            /\ result.ok =>
                /\ Len(result.value) = (IF n = 0 THEN 0 ELSE n - 1)
                /\ \A i \in 2..n : LineParses(input, i)

\* C17 witness: the second line parsed and was pushed, the third did not, and
\* parse_tree returned the error
C17_Witness ==
    /\ Done("parse_tree")
    /\ Len(BufRead_lines(input)) = 3
    /\ LineParses(input, 2)
    /\ ~LineParses(input, 3)
    /\ Len(tree) = 1
    /\ IsErr(result)

\* C18: parse_tree is a function of its input whose output follows the line
\* order and keeps duplicates: the list returned is the one parsing the text
\* again returns, and its entry i is the dependency of line i + 1.
C18_DeterministicOrdered ==
    Done("parse_tree") =>
        /\ result = parse_tree(input)
        /\ result.ok =>
            /\ Len(result.value) + 1 = Len(BufRead_lines(input)) \/ result.value = <<>>
            /\ \A i \in 1..Len(result.value) :
                Ok(result.value[i]) = Dependency_from_str(BufRead_lines(input)[i + 1].value)

\* C18 witness: two lines after the first gave the same (identity, version)
\* pair and both are in the list
C18_Witness ==
    /\ Done("parse_tree")
    /\ result.ok
    /\ Len(result.value) = 2
    /\ result.value[1] = result.value[2]

----------------------------------------------------------------------------
(* Claims about the license reports *)

ReportDone ==
    Done("gen_licenses_for") \/ Done("cargo_bom_gen_licenses") \/ Done("main_gen_licenses")

\* the packages of the report: the components, or the log after pruning
Reported == IF entry = "gen_licenses_for" THEN DOMAIN in_log ELSE DOMAIN packages

\* the SPDX identifiers of the licenses of the reported packages
Referenced ==
    {spdx_short(lic).value :
        lic \in UNION {Range(config.third_party[id].licenses) : id \in Reported}}

IsSummaryLine(l) == Len(l) = 2 /\ l[1] = "  * "

\* the SPDX identifiers of the summary, in the order written
SummaryKeys(lines) ==
    LET sel == SelectSeq(lines, IsSummaryLine) IN [i \in 1..Len(sel) |-> sel[i][2]]

LicenseTags == {"ISC", "MIT", "OpenSSL", "BSLv1", "MPLv2", "BSD3", "UnicodeDFS2016"}

\* the text of the license whose SPDX identifier is key
TextOfKey(key) ==
    License_text(CHOOSE lic \in [tag : LicenseTags] : spdx_short(lic).value = key).value

IsTextLine(l) == Len(l) = 1 /\ \E lic \in [tag : LicenseTags] : l[1] = License_text(lic).value

\* the license texts written, in the order written
TextsWritten(lines) ==
    LET sel == SelectSeq(lines, IsTextLine) IN [i \in 1..Len(sel) |-> sel[i][1]]

LicensesLabel == IF entry = "main_gen_licenses" THEN "licenses: " ELSE "license(s): "

\* C19: a successful license report lists in its summary exactly the SPDX
\* identifiers of the licenses of the reported packages, each once, in
\* ascending order, each followed by its URL; the license texts are those of
\* the same identifiers in the same order and are the last lines of the
\* report; every identifier on the license line of a package is in the summary.
C19_DistinctLicensesOnce ==
    (ReportDone /\ result.ok) =>
        LET keys == SummaryKeys(out)
            texts == TextsWritten(out)
            n == Len(keys)
        IN  /\ Range(keys) = Referenced
            /\ \A i \in 1..n : \A j \in 1..n : i < j => StrRank(keys[i]) < StrRank(keys[j])
            /\ \A i \in 1..n :
                out[2 + 2 * i] = <<"      - ", "https://spdx.org/licenses/" \o keys[i] \o ".html">>
            /\ Len(texts) = n
            /\ \A i \in 1..n :
                /\ texts[i] = TextOfKey(keys[i])
                /\ out[Len(out) - 2 * (n - i) - 1] = <<texts[i]>>
            /\ \A id \in Reported :
                /\ <<LicensesLabel, Join(SpdxShorts(config.third_party[id].licenses), " AND ")>>
                        \in Range(out)
                /\ Range(SpdxShorts(config.third_party[id].licenses)) \subseteq Range(keys)

\* C19 witness: two components both licensed under MIT, one of them under ISC
\* as well, reported with a summary of ISC and MIT
C19_Witness ==
    /\ Done("gen_licenses_for")
    /\ result.ok
    /\ Cardinality(Reported) >= 2
    /\ \A id \in Reported : "MIT" \in Range(SpdxShorts(config.third_party[id].licenses))
    /\ SummaryKeys(out) = <<"ISC", "MIT">>

\* the reported packages whose Config.third_party entry has no license
EmptyListed ==
    {id \in Reported \cap DOMAIN config.third_party : config.third_party[id].licenses = <<>>}

IsNoLicenseError(r) == IsErr(r) /\ r.err[1] = "No license specified for "

\* C20: a license report fails with the "No license specified" error whenever
\* the Config.third_party entry of a reported package has an empty license
\* list; in particular the report run with the unedited Config of gen-config
\* fails with that error when that Config holds a third-party package.
C20_EmptyLicensesFail ==
    /\ (ReportDone /\ EmptyListed # {}) => IsNoLicenseError(result)
    /\ (pc = "skeleton_report" /\ DOMAIN config.third_party # {}) => IsNoLicenseError(result)

----------------------------------------------------------------------------
(* Claims about copyrights and bills of materials *)

CopyrightPlaceholder ==
    "No copyright statement was provided by the author even though they license may refer to it"

\* the copyright lines a license stands for
ExpectedCopyright(lic) ==
    IF lic.tag \in {"ISC", "MIT", "BSD3"}
    THEN IF lic.copyright = NotPresent THEN <<CopyrightPlaceholder>> ELSE lic.copyright.lines
    ELSE <<>>

RECURSIVE ExpectedCopyrights(_)
ExpectedCopyrights(lics) ==
    IF lics = <<>> THEN <<>> ELSE ExpectedCopyright(Head(lics)) \o ExpectedCopyrights(Tail(lics))

\* the line of the report that holds the url of a package
UrlLine(id) ==
    CHOOSE k \in 1..Len(out) : out[k] = <<"url: ", Package_url(config.third_party[id])>>

\* the section of a package in a report: its copyright lines follow the line of
\* its licenses, and an empty line ends them
CopyrightSection(id) ==
    LET lines == ExpectedCopyrights(config.third_party[id].licenses)
        k == UrlLine(id)
    IN  /\ Len(out) >= k + 2 + Len(lines)
        /\ out[k + 1][1] \in {"license(s): ", "licenses: "}
        /\ \A i \in 1..Len(lines) : out[k + 1 + i] = <<lines[i]>>
        /\ out[k + 2 + Len(lines)] = <<>>

BomDone(cmd) == entry = cmd /\ pc = "done" /\ result.ok

\* the dependencies of a Bom of create_bom that are open source
OpenSourceDeps ==
    {i \in 1..Len(result.value.dependencies) :
        result.value.dependencies[i].license.type = "OpenSource"}

\* the components of a Bom of gen_bom that come from Config.third_party
ThirdPartyComponents ==
    {i \in 1..Len(out[1].components) : out[1].components[i].name \in DOMAIN config.third_party}

\* C21: a license of a variant with a copyright (ISC, MIT, BSD3) whose
\* copyright is NotPresent stands for exactly the one placeholder line, and a
\* license of any other variant for no line: in the sections of a license
\* report, in License::copyright and License::copyrights, in the copyrights of
\* the open source dependencies of create_bom and in the copyright of the
\* components of gen_bom.
C21_PlaceholderLine ==
    /\ (entry \in {"gen_licenses_for", "cargo_bom_gen_licenses", "main_gen_licenses"}
            /\ pc = "done" /\ result.ok) =>
            \A id \in (IF entry = "gen_licenses_for" THEN DOMAIN in_log ELSE DOMAIN packages) :
                CopyrightSection(id)
    /\ pc = "done" =>
            \A id \in DOMAIN config.third_party :
                \A i \in 1..Len(config.third_party[id].licenses) :
                    LET lic == config.third_party[id].licenses[i]
                        lines == ExpectedCopyright(lic)
                        some == lic.tag \in {"ISC", "MIT", "BSD3"}
                    IN  /\ License_copyright(lic) = IF some THEN <<lines>> ELSE <<>>
                        /\ lic.tag # "Unknown" =>
                                License_copyrights(lic) = Ok(IF some THEN <<lines>> ELSE <<>>)
                        /\ (some /\ lic.copyright = NotPresent) => Len(lines) = 1
    /\ BomDone("create_bom") =>
            \A i \in OpenSourceDeps :
                LET dep == result.value.dependencies[i]
                    lics == config.third_party[dep.crate_name].licenses
                IN  /\ Len(dep.license.licenses) = Len(lics)
                    /\ \A j \in 1..Len(lics) :
                            dep.license.licenses[j].copyrights =
                                IF lics[j].tag \in {"ISC", "MIT", "BSD3"}
                                THEN <<ExpectedCopyright(lics[j])>> ELSE <<>>
    /\ BomDone("gen_bom") =>
            \A i \in ThirdPartyComponents :
                LET lines == ExpectedCopyrights(
                                 config.third_party[out[1].components[i].name].licenses)
                IN  out[1].components[i].copyright =
                        IF lines = <<>> THEN <<>> ELSE <<Join(lines, " ")>>

\* C21 witness: create_bom returned a Bom with an open source dependency one of
\* whose licenses has the placeholder as its only copyright line
C21_Witness ==
    /\ BomDone("create_bom")
    /\ \E i \in OpenSourceDeps :
        \E j \in 1..Len(result.value.dependencies[i].license.licenses) :
            /\ ExpectedCopyright(
                   config.third_party[result.value.dependencies[i].crate_name].licenses[j])
                    = <<CopyrightPlaceholder>>
            /\ result.value.dependencies[i].license.licenses[j].copyrights
                    = <<<<CopyrightPlaceholder>>>>

\* the identities of the ledger create_bom was given that are not build-only
PrunedIds == DOMAIN in_log \ local.config.build_only

\* C22: create_bom fails with "subject .. is not in the vendor package list"
\* when the subject is not a key of Config.vendor, and with "Subject crate ..
\* not in build log" when it is not in the ledger after the build-only
\* identities are removed; otherwise the subject is recorded with its vendor
\* url and the least version of its version set, and a Bom that is returned
\* carries that subject.
C22_SubjectResolved ==
    Done("create_bom") =>
        LET s == local.subject_name
        IN  IF s \notin DOMAIN local.config.vendor
            THEN result = Err(<<"subject ", s, " is not in the vendor package list">>)
            ELSE IF s \notin PrunedIds
            THEN result = Err(<<"Subject crate ", s, " not in build log">>)
            ELSE /\ "subject" \in DOMAIN local
                 /\ local.subject.crate_name = s
                 /\ local.subject.url = local.config.vendor[s].url
                 /\ local.subject.version \in in_log[s].versions
                 /\ \A v \in in_log[s].versions :
                        v = local.subject.version \/ VersionLess(local.subject.version, v)
                 /\ result.ok => result.value.subject = local.subject

\* C22 witness: a Bom is returned whose subject has two versions in the ledger
C22_Witness ==
    /\ BomDone("create_bom")
    /\ Cardinality(in_log[local.subject_name].versions) = 2
    /\ result.value.subject.version = <<1, 0, 0>>

\* the identities the loop of create_bom goes over: the ledger without the
\* build-only identities and the subject
Remaining == PrunedIds \ {local.subject_name}

\* the identities the loop of gen_bom classifies
GenBomRemaining == (DOMAIN in_log \ config.build_only) \ {config.targets["lib"].name}

Unclassified(ids, cfg) == {id \in ids : id \notin DOMAIN cfg.vendor /\ id \notin DOMAIN cfg.third_party}

NotFound(id) == <<"3rd party package not found in allow-list: ", id>>

\* C23: once the subject is resolved, create_bom fails when an identity left
\* in the ledger is in neither Config.vendor nor Config.third_party (an error,
\* if it is one, names such an identity), and every dependency of a Bom it
\* returns is Vendor, with the vendor url, exactly when its identity is in
\* Config.vendor and OpenSource, with the licenses of its third_party entry,
\* otherwise; gen_bom likewise fails on such an identity and on success every
\* component has the licenses of its third_party entry, or the vendor license
\* when it is in Config.vendor only.
C23_Classified ==
    /\ (Done("create_bom") /\ "subject" \in DOMAIN local) =>
            /\ Unclassified(Remaining, local.config) # {} => ~result.ok
            /\ IsErr(result) => \E id \in Unclassified(Remaining, local.config) :
                                    result.err = NotFound(id)
            /\ result.ok =>
                \A i \in 1..Len(result.value.dependencies) :
                    LET dep == result.value.dependencies[i]
                    IN  IF dep.crate_name \in DOMAIN local.config.vendor
                        THEN /\ dep.license = [type |-> "Vendor", licenses |-> <<>>]
                             /\ dep.url = local.config.vendor[dep.crate_name].url
                        ELSE /\ dep.crate_name \in DOMAIN config.third_party
                             /\ dep.license.type = "OpenSource"
                             /\ Len(dep.license.licenses)
                                    = Len(config.third_party[dep.crate_name].licenses)
                             /\ dep.url = Package_url(config.third_party[dep.crate_name])
    /\ (Done("gen_bom") /\ "lib" \in DOMAIN config.targets) =>
            /\ Unclassified(GenBomRemaining, config) # {} => ~result.ok
            /\ result.ok =>
                \A i \in 1..Len(out[1].components) :
                    LET c == out[1].components[i]
                    IN  IF c.name \in DOMAIN config.third_party
                        THEN c.licenses = SpdxShorts(config.third_party[c.name].licenses)
                        ELSE /\ c.name \in DOMAIN config.vendor
                             /\ c.licenses = <<[name |-> "Custom non-commercial license",
                                                url |-> config.targets["lib"].license_url]>>

\* C23 witness: create_bom resolved the subject and failed on an identity that
\* is in neither map, while another identity is a vendor package
C23_Witness ==
    /\ Done("create_bom")
    /\ "subject" \in DOMAIN local
    /\ \E id \in Unclassified(Remaining, local.config) : result = Err(NotFound(id))
    /\ \E id \in Remaining : id \in DOMAIN local.config.vendor

\* the licenses of the packages of Config.third_party
ConfigLicenses ==
    UNION {Range(config.third_party[id].licenses) : id \in DOMAIN config.third_party}

Resolves(lic) == spdx_short(lic).ok /\ License_url(lic).ok /\ License_text(lic).ok

UnknownPanic == Panic("You must define unknown licenses")

\* the reported packages that Config.third_party lists with License::Unknown
ReportedUnknown ==
    {id \in Reported \cap DOMAIN config.third_party :
        HasUnknown(config.third_party[id].licenses)}

Restricted(m, ids) == [id \in ids \cap DOMAIN m |-> m[id]]

\* C25: after remove_build_deps the ledger is the ledger read without the
\* identities of Config.build_only (create_bom before the subject is taken
\* out, gen_bom), and after remove_build_deps and remove_vendor_deps it is the
\* ledger read without the identities of Config.build_only and the keys of
\* Config.vendor (gen_licenses of cargo-bom); every other entry has the
\* version set and the source tag it had, and the Config is the one given.
C25_PruneExact ==
    /\ (entry = "create_bom" /\ pc = "subject") =>
            /\ packages = Restricted(in_log, DOMAIN in_log \ config.build_only)
            /\ config = local.config
    /\ (Done("gen_bom") /\ "lib" \in DOMAIN config.targets) =>
            packages = Restricted(in_log, DOMAIN in_log \ config.build_only)
    /\ Done("cargo_bom_gen_licenses") =>
            packages = Restricted(in_log, (DOMAIN in_log \ config.build_only)
                                              \ DOMAIN config.vendor)

\* C25 witness: gen_licenses of cargo-bom removed a vendor entry and kept an
\* entry with two versions
C25_Witness ==
    /\ Done("cargo_bom_gen_licenses")
    /\ \E id \in DOMAIN in_log : id \in DOMAIN config.vendor /\ id \notin DOMAIN packages
    /\ \E id \in DOMAIN packages : Cardinality(packages[id].versions) = 2

\* the messages that were merged into the ledger: all that were read, but for
\* the one on which ingestion failed
Merged ==
    IF /\ pc = "done"
       /\ History # <<>>
       /\ ~result.ok
       /\ ~item_of(entry, packages, History[Len(History)]).ok
    THEN SubSeq(History, 1, Len(History) - 1)
    ELSE History

\* a Config whose only vendor package is the subject
SubjectConfig(subject_name) ==
    [NoConfig EXCEPT !.vendor = [id \in {subject_name} |-> [url |-> "https://vendor/"]]]

\* C26: in every state of an ingestion the ledger holds an entry exactly for
\* the identities of the artifacts merged so far, the version set of an entry
\* is not empty and is exactly the set of versions merged for its identity,
\* pruning leaves no entry with an empty version set, and create_bom finds a
\* version for every subject that is in a returned ledger.
C26_VersionsNonEmpty ==
    LET merged == Triples(Merged)
    IN  /\ DOMAIN packages = {t.id : t \in merged}
        /\ \A id \in DOMAIN packages :
                /\ packages[id].versions # {}
                /\ packages[id].versions = {t.version : t \in {u \in merged : u.id = id}}
        /\ Returned =>
                \A subject_name \in DOMAIN packages :
                    /\ \A build_only \in SUBSET DOMAIN packages :
                            \A id \in DOMAIN remove_build_deps(packages,
                                                [NoConfig EXCEPT !.build_only = build_only]) :
                                packages[id].versions # {}
                    /\ create_bom_subject(subject_name, packages,
                                          SubjectConfig(subject_name)).res.ok

\* C26 witness: read_files_recursively returned a ledger in which an identity
\* has two versions, one from each of two files
C26_Witness ==
    /\ Returned
    /\ entry = "read_files_recursively"
    /\ Len(log_files) = 2
    /\ \E id \in DOMAIN packages :
        /\ Cardinality(packages[id].versions) = 2
        /\ \A f \in 1..2 :
            Cardinality({t.version : t \in {u \in Triples(log_files[f]) : u.id = id}}) = 1

----------------------------------------------------------------------------
(* Scans of a directory: read_files_recursively and gen_licenses_in_dirs *)

InitDirs ==
    \/ InitLog /\ entry = "read_files_recursively"
    \/ InitCmd /\ entry = "gen_licenses_in_dirs"

NextDirs ==
    \/ NextLog
    \/ CommandInputError
    \/ GenLicensesInDirs

SpecDirs == InitDirs /\ [][NextDirs]_vars

\* two ledgers with the same identities and the same version sets
SameVersions(l1, l2) ==
    /\ DOMAIN l1 = DOMAIN l2
    /\ \A id \in DOMAIN l1 : l1[id].versions = l2[id].versions

\* a Config that lists every crate name of the build logs
ListedConfig ==
    [NoConfig EXCEPT !.third_party = [id \in CrateNames |-> ThirdParty(id, MitNotPresent)]]

\* the outcome of the scan is that of the messages read, not of an I/O error
\* of the directory or of a file
ByContents == result.ok \/ Merged # History

\* C27: whatever the order in which the files of a directory are visited,
\* read_files_recursively succeeds or fails alike, and when it succeeds the
\* ledger has the same identities and version sets and gives the same license
\* report; and whatever the order in which the directories are visited,
\* gen_licenses_in_dirs succeeds or fails alike, and when it succeeds the
\* merged components and the report written are the same.
C27_VisitOrder ==
    /\ (entry = "read_files_recursively" /\ pc = "done" /\ ByContents) =>
            \A msgs \in {Flatten(files) : files \in Reorderings(log_files)} \ {History} :
                LET r == IngestFrom(entry, EmptyMap, msgs)
                IN  /\ r.ok = result.ok
                    /\ r.ok =>
                        /\ SameVersions(r.value, packages)
                        /\ r.value # packages =>
                                cargo_bom_gen_licenses(r.value, ListedConfig).w
                                    = cargo_bom_gen_licenses(packages, ListedConfig).w
    /\ Done("gen_licenses_in_dirs") =>
            \A boms \in Reorderings(input) :
                LET r == gen_licenses_in_dirs(boms, config)
                IN  /\ r.res.ok = result.ok
                    /\ local.ok => gen_licenses_in_dirs_loop(boms, config, EmptyMap) = local
                    /\ result.ok => r.w = out

\* C27 witness: gen_licenses_in_dirs wrote a report over two directories whose
\* Boms hold one component name with different versions
C27_Witness ==
    /\ Done("gen_licenses_in_dirs")
    /\ result.ok
    /\ Len(input) = 2
    /\ \E name \in DOMAIN local.value :
        /\ Cardinality(local.value[name]) = 2
        /\ \A d \in 1..2 : Cardinality(extract_deps(input[d], config).value[name]) = 1

----------------------------------------------------------------------------
(* The ledger over the steps of a command *)

\* every entry of l1 is an entry of l2, with its version set and source tag
SubLedger(l1, l2) ==
    /\ DOMAIN l1 \subseteq DOMAIN l2
    /\ \A id \in DOMAIN l1 : l1[id] = l2[id]

\* a step of a command on the ledger ingestion returned to it
LedgerStep ==
    /\ pc # "start" => SubLedger(packages', packages)
    /\ pc = "start" => SubLedger(packages', in_log')
    /\ (pc # "start" /\ (out' # out \/ pc' \in {"done", "skeleton_report"}))
            => packages' = packages

\* C28: once ingestion has returned the ledger to a command, a step of the
\* command leaves in the ledger only entries that were in it, each with the
\* version set and source tag it had, and a step that writes the report or
\* ends the command does not change the ledger; the ledger a command ends
\* with holds only entries of the ledger that was read.
C28_LedgerOnlyShrinks == [][LedgerStep]_vars

\* C28 witness: create_bom has removed a build-only entry and the subject and
\* is about to go over the entries that are left
C28_Witness ==
    /\ entry = "create_bom"
    /\ pc = "deps"
    /\ local.config.build_only \cap DOMAIN in_log # {}
    /\ DOMAIN in_log \ DOMAIN packages = local.config.build_only \cup {local.subject_name}
    /\ DOMAIN packages # {}

----------------------------------------------------------------------------
(* Claims about extract_deps and create_bom's dependencies *)

\* a component that extract_deps leaves out: build-only or vendor
Skipped(component) ==
    component.name \in config.build_only \/ component.name \in DOMAIN config.vendor

Kept(component) == ~Skipped(component)

\* a component without a version, or with a version that is not a semantic version
BadVersion(component) ==
    component.version = <<>> \/ ~VersionParse(component.version[1]).ok

ExtractDone == Done("allow_list_gen_licenses") /\ input.components # <<>>

\* C29 as stated: the components that are build-only or vendor have no effect
\* on what extract_deps returns, result or error.
C29_Original ==
    ExtractDone =>
        local = extract_deps([components |-> <<SelectSeq(input.components[1], Kept)>>],
                             config)

\* C29 as it holds: extract_deps requires a semantic version of every
\* component, skipped or not, and returns the error of the first component
\* that has none; when it succeeds, the components that are build-only or
\* vendor have added no entry, and every other name has the versions of its
\* components.
C29_SkippedStillValidated ==
    ExtractDone =>
        LET cs == input.components[1]
            bad == {i \in 1..Len(cs) : BadVersion(cs[i])}
        IN  /\ local.ok <=> bad = {}
            /\ local.ok =>
                /\ DOMAIN local.value = {cs[i].name : i \in {j \in 1..Len(cs) : Kept(cs[j])}}
                /\ \A name \in DOMAIN local.value :
                        local.value[name] =
                            {VersionParse(cs[i].version[1]).version :
                                i \in {j \in 1..Len(cs) : cs[j].name = name}}
            /\ ~local.ok =>
                LET first == CHOOSE i \in bad : \A j \in bad : i <= j
                IN  local = IF cs[first].version = <<>>
                            THEN Err(<<"Missing version in component ", cs[first].name>>)
                            ELSE Err(VersionParse(cs[first].version[1]).err)

\* C29 witness: extract_deps failed on a build-only or vendor component while
\* every other component has a semantic version
C29_Witness ==
    /\ ExtractDone
    /\ ~local.ok
    /\ \E i \in 1..Len(input.components[1]) :
        /\ Skipped(input.components[1][i])
        /\ BadVersion(input.components[1][i])
    /\ \A i \in 1..Len(input.components[1]) :
        BadVersion(input.components[1][i]) => Skipped(input.components[1][i])

\* C30: the dependencies of a Bom that create_bom returns are one record for
\* each identity of the ledger that is neither build-only nor the subject, in
\* ascending order of the identities, each with all the versions of its ledger
\* entry in ascending order; none is the subject.
C30_DependenciesExact ==
    BomDone("create_bom") =>
        LET deps == result.value.dependencies
        IN  /\ Len(deps) = Cardinality(Remaining)
            /\ {deps[i].crate_name : i \in 1..Len(deps)} = Remaining
            /\ \A i, j \in 1..Len(deps) :
                    i < j => StrRank(deps[i].crate_name) < StrRank(deps[j].crate_name)
            /\ \A i \in 1..Len(deps) :
                    /\ deps[i].crate_name # result.value.subject.crate_name
                    /\ Range(deps[i].versions) = in_log[deps[i].crate_name].versions
                    /\ \A k, l \in 1..Len(deps[i].versions) :
                            k < l => VersionLess(deps[i].versions[k], deps[i].versions[l])

\* C30 witness: a Bom with two dependencies, one of them with two versions,
\* from a ledger that also held a build-only identity
C30_Witness ==
    /\ BomDone("create_bom")
    /\ Len(result.value.dependencies) = 2
    /\ \E i \in 1..2 : Len(result.value.dependencies[i].versions) = 2

====
